---- MODULE Spec2Model ----
(***************************************************************************)
(* Verification model of the protocol-translation gateway:                 *)
(*   - the streaming transcoder convertStreamToOpenAI                      *)
(*     (src/format/openai-response-converter.js), specification SpecStream *)
(*   - the account pool, selector and dispatch pipeline                    *)
(*     (worker/src/account-manager.js, worker/src/index.js),               *)
(*     specification Spec                                                  *)
(***************************************************************************)
EXTENDS Integers, Sequences, FiniteSets, TLC

\* ------------------------------------------------------------------------
\* Bounds
\* ------------------------------------------------------------------------
\* longest neutral event sequence fed to the transcoder
MaxEvents == 4
\* number of distinct content-block indices carried by the events
MaxBlocks == 2
\* most accounts a pool descriptor lists
NumAccounts == 2
\* requests served in one run, one after the other
MaxRequests == 2
\* the clock stops advancing at MaxTime (seconds)
MaxTime == 150
\* most events one upstream stream yields
MaxStreamEvents == 2
\* getTokenForAccount calls that may be in flight at once
NumCallers == 2
\* refresh tokens the identity provider may hand out, numbered from 1
MaxRefreshTokens == 2
\* the clock of the token provider stops advancing at MaxTokenTime (seconds)
MaxTokenTime == 300

\* longest content array of a neutral response handed to the converter
MaxContentBlocks == 3
\* number of requests the worker answers side by side
MaxFetches == 2
\* longest error text, in pieces
MaxErrorPieces == 3
\* number of endpoint bases in ANTIGRAVITY_ENDPOINT_FALLBACKS
NumEndpoints == 3
\* longest message list and longest tool_calls list of a chat request
MaxMessages == 3
MaxToolCalls == 2
\* the account manager's methods called in any order: clock step and horizon
LimitStep == 30
MaxLimitTime == 90

VARIABLES
    \* ---- convertStreamToOpenAI ----
    inp,                    \* events pulled from anthropicStream so far
    out,                    \* items yielded so far
    currentToolCallIndex,
    emittedRole,
    inThinking,
    \* ---- WorkerAccountManager ----
    accounts,               \* #accounts: the Account Store
    currentIndex,           \* #currentIndex: the rotation pointer
    tokenCache,             \* #tokenCache: email -> extractedAt
    \* ---- environment and requests ----
    now,                    \* Date.now(), in seconds
    req,                    \* the request in flight and where it stands
    served,                 \* number of requests received so far
    \* ---- callers of getTokenForAccount ----
    calls,                  \* each caller's call and where it stands
    resolvedAt,             \* per account, time of the last token returned
    \* ---- format converters ----
    anthropicResponse,      \* argument of convertAnthropicToOpenAI
    openaiResponse,         \* what convertAnthropicToOpenAI returned
    openaiRequest,          \* argument of convertOpenAIToAnthropic
    anthropicRequest,       \* what convertOpenAIToAnthropic returned
    \* ---- Project Resolver ----
    projectCache,           \* #projectCache: email -> projectId
    lookup,                 \* the getProjectForAccount call and where it stands
    \* ---- worker entry point ----
    worker,                 \* module state: env, accountManager, initError
    httpRequest,            \* the request fetch is answering
    thrown,                 \* the error fetch caught
    httpResponse,           \* the response fetch returned
    isolate                 \* initPromise and the fetch calls running side by side

streamVars == <<inp, out, currentToolCallIndex, emittedRole, inThinking>>

tokenVars == <<calls, resolvedAt>>

convVars == <<anthropicResponse, openaiResponse, openaiRequest, anthropicRequest>>

projectVars == <<projectCache, lookup>>

httpVars == <<worker, httpRequest, thrown, httpResponse, isolate>>

sideVars == <<projectVars, httpVars>>

poolVars == <<accounts, currentIndex, tokenCache, now, req, served, calls, resolvedAt,
              convVars, sideVars>>

vars == <<inp, out, currentToolCallIndex, emittedRole, inThinking,
          accounts, currentIndex, tokenCache, now, req, served, calls, resolvedAt,
          anthropicResponse, openaiResponse, openaiRequest, anthropicRequest,
          projectCache, lookup, worker, httpRequest, thrown, httpResponse, isolate>>

\* ------------------------------------------------------------------------
\* Neutral streaming events (the input alphabet of the transcoder)
\* ------------------------------------------------------------------------
NoIndex == -1

BlockIndices == 0 .. (MaxBlocks - 1)
BlockTypes == {"text", "thinking", "tool_use"}
DeltaTypes == {"text_delta", "thinking_delta", "input_json_delta", "signature_delta"}
\* event.delta.stop_reason ("none": the event carries no stop reason)
StopReasons == {"end_turn", "max_tokens", "stop_sequence", "tool_use", "none"}

Ev(t, i, s) == [type |-> t, index |-> i, sub |-> s]

\* ------------------------------------------------------------------------
\* Output items.  `at` is the position in inp of the event that produced
\* the item (bookkeeping for the properties, not part of the wire format).
\* ------------------------------------------------------------------------
ThinkOpen == "<thinking>\n"
ThinkClose == "\n</thinking>\n"

Chunk(k, c, ti, fr, p) ==
    [kind |-> k, content |-> c, tool_index |-> ti, finish_reason |-> fr, at |-> p]

RoleChunk(p) == Chunk("role", "", NoIndex, "null", p)
ContentChunk(c, p) == Chunk("content", c, NoIndex, "null", p)
ToolStartChunk(ti, p) == Chunk("tool_start", "", ti, "null", p)
ToolArgsChunk(ti, p) == Chunk("tool_args", "", ti, "null", p)
FinishChunk(fr, p) == Chunk("finish", "", NoIndex, fr, p)
ErrorChunk(p) == Chunk("error", "", NoIndex, "stop", p)
DoneMarker(p) == Chunk("done", "data: [DONE]", NoIndex, "null", p)

mapStopReason_IgnoresToolCalls(stopReason, hasToolCalls) ==
    IF stopReason = "tool_use" THEN "tool_calls"
    ELSE IF stopReason = "end_turn" THEN "stop"
    ELSE IF stopReason = "max_tokens" THEN "length"
    ELSE "stop"

mapStopReason(stopReason, hasToolCalls) ==
    IF hasToolCalls \/ stopReason = "tool_use" THEN "tool_calls"
    ELSE IF stopReason = "end_turn" THEN "stop"
    ELSE IF stopReason = "max_tokens" THEN "length"
    ELSE "stop"

\* position the next event will take in inp
NextPos == Len(inp) + 1

\* ------------------------------------------------------------------------
\* convertStreamToOpenAI: one action per case of the switch
\* ------------------------------------------------------------------------
OnMessageStart ==
    /\ Len(inp) < MaxEvents
    /\ UNCHANGED poolVars
    /\ inp' = Append(inp, Ev("message_start", NoIndex, ""))
    /\ out' = Append(out, RoleChunk(NextPos))
    /\ emittedRole' = TRUE
    /\ UNCHANGED <<currentToolCallIndex, inThinking>>

OnContentBlockStart(i, bt) ==
    /\ Len(inp) < MaxEvents
    /\ UNCHANGED poolVars
    /\ inp' = Append(inp, Ev("content_block_start", i, bt))
    /\ IF bt = "thinking"
       THEN /\ inThinking' = TRUE
            /\ out' = Append(out, ContentChunk(ThinkOpen, NextPos))
            /\ UNCHANGED currentToolCallIndex
       ELSE IF bt = "tool_use"
       THEN /\ currentToolCallIndex' = currentToolCallIndex + 1
            /\ out' = Append(out, ToolStartChunk(currentToolCallIndex + 1, NextPos))
            /\ UNCHANGED inThinking
       ELSE UNCHANGED <<out, currentToolCallIndex, inThinking>>
    /\ UNCHANGED emittedRole

OnContentBlockDelta(i, dt) ==
    /\ Len(inp) < MaxEvents
    /\ UNCHANGED poolVars
    /\ inp' = Append(inp, Ev("content_block_delta", i, dt))
    /\ IF dt = "thinking_delta"
       THEN out' = Append(out, ContentChunk("thinking", NextPos))
       ELSE IF dt = "text_delta"
       THEN out' = Append(out, ContentChunk("text", NextPos))
       ELSE IF dt = "input_json_delta"
       THEN out' = Append(out, ToolArgsChunk(currentToolCallIndex, NextPos))
       ELSE UNCHANGED out
    /\ UNCHANGED <<currentToolCallIndex, emittedRole, inThinking>>

OnContentBlockStop(i) ==
    /\ Len(inp) < MaxEvents
    /\ UNCHANGED poolVars
    /\ inp' = Append(inp, Ev("content_block_stop", i, ""))
    /\ IF inThinking
       THEN /\ out' = Append(out, ContentChunk(ThinkClose, NextPos))
            /\ inThinking' = FALSE
       ELSE UNCHANGED <<out, inThinking>>
    /\ UNCHANGED <<currentToolCallIndex, emittedRole>>

OnMessageDelta(sr) ==
    /\ Len(inp) < MaxEvents
    /\ UNCHANGED poolVars
    /\ inp' = Append(inp, Ev("message_delta", NoIndex, sr))
    /\ out' = Append(out, FinishChunk(mapStopReason(sr, currentToolCallIndex >= 0), NextPos))
    /\ UNCHANGED <<currentToolCallIndex, emittedRole, inThinking>>

OnMessageStop_Silent ==
    /\ Len(inp) < MaxEvents
    /\ UNCHANGED poolVars
    /\ inp' = Append(inp, Ev("message_stop", NoIndex, ""))
    /\ UNCHANGED <<out, currentToolCallIndex, emittedRole, inThinking>>

OnMessageStop ==
    /\ Len(inp) < MaxEvents
    /\ UNCHANGED poolVars
    /\ inp' = Append(inp, Ev("message_stop", NoIndex, ""))
    /\ out' = Append(out, DoneMarker(NextPos))
    /\ UNCHANGED <<currentToolCallIndex, emittedRole, inThinking>>

OnError ==
    /\ Len(inp) < MaxEvents
    /\ UNCHANGED poolVars
    /\ inp' = Append(inp, Ev("error", NoIndex, ""))
    /\ out' = out \o <<ErrorChunk(NextPos), DoneMarker(NextPos)>>
    /\ UNCHANGED <<currentToolCallIndex, emittedRole, inThinking>>

\* ------------------------------------------------------------------------
\* convertAnthropicToOpenAI (non-streaming).  A string is the sequence of
\* its pieces.
\* ------------------------------------------------------------------------
Absent == "undefined"
EmptyObject == "{}"
\* a value that may be missing: None, or Some(x)
None == <<>>
Some(x) == <<x>>

\* JSON text is the value it encodes, marked valid; any other text handed
\* to JSON.parse is marked not valid
JSONstringify(v) == [valid |-> TRUE, text |-> v]
Malformed(t) == [valid |-> FALSE, text |-> t]

TextBlock(t) == [type |-> "text", text |-> t, id |-> Absent, name |-> Absent, input |-> Absent]
ThinkingBlock(t) ==
    [type |-> "thinking", text |-> t, id |-> Absent, name |-> Absent, input |-> Absent]
ToolUseBlock(i, n, v) ==
    [type |-> "tool_use", text |-> <<>>, id |-> i, name |-> n, input |-> v]

\* the content blocks a neutral response may carry
ContentBlocks ==
    { TextBlock(<<"a">>), TextBlock(<<"b">>), TextBlock(<<>>),
      ThinkingBlock(<<"t">>),
      ToolUseBlock("call_1", "f", "args_1"), ToolUseBlock("call_2", "g", Absent) }

\* Array.prototype.join
RECURSIVE Join(_, _)
Join(parts, sep) ==
    IF parts = <<>> THEN <<>>
    ELSE IF Len(parts) = 1 THEN parts[1]
    ELSE parts[1] \o sep \o Join(Tail(parts), sep)

ToolCall(block) ==
    [id |-> block.id, type |-> "function", name |-> block.name,
     arguments |-> JSONstringify(IF block.input = Absent THEN EmptyObject ELSE block.input)]

RECURSIVE ConvertedBlocks_Unshifts(_, _)
ConvertedBlocks_Unshifts(contentBlocks, n) ==
    IF n = 0 THEN [textParts |-> <<>>, toolCalls |-> <<>>]
    ELSE LET acc == ConvertedBlocks_Unshifts(contentBlocks, n - 1)
             block == contentBlocks[n]
         IN IF block.type = "text"
            THEN [acc EXCEPT !.textParts = <<block.text>> \o @]
            ELSE IF block.type = "thinking"
            THEN [acc EXCEPT !.textParts =
                     Append(@, <<"<thinking>", "\n">> \o block.text \o <<"\n", "</thinking>">>)]
            ELSE IF block.type = "tool_use"
            THEN [acc EXCEPT !.toolCalls = Append(@, ToolCall(block))]
            ELSE acc

\* the loop of convertContentBlocks over the first n blocks
RECURSIVE ConvertedBlocks(_, _)
ConvertedBlocks(contentBlocks, n) ==
    IF n = 0 THEN [textParts |-> <<>>, toolCalls |-> <<>>]
    ELSE LET acc == ConvertedBlocks(contentBlocks, n - 1)
             block == contentBlocks[n]
         IN IF block.type = "text"
            THEN [acc EXCEPT !.textParts = Append(@, block.text)]
            ELSE IF block.type = "thinking"
            THEN [acc EXCEPT !.textParts =
                     Append(@, <<"<thinking>", "\n">> \o block.text \o <<"\n", "</thinking>">>)]
            ELSE IF block.type = "tool_use"
            THEN [acc EXCEPT !.toolCalls = Append(@, ToolCall(block))]
            ELSE acc

convertContentBlocks(contentBlocks) ==
    LET acc == ConvertedBlocks(contentBlocks, Len(contentBlocks))
    IN [message |-> IF Len(acc.textParts) > 0
                    THEN Some(Join(acc.textParts, <<"\n">>)) ELSE None,
        toolCalls |-> acc.toolCalls]

\* tool_calls is <<>> where the code leaves the field out
convertAnthropicToOpenAI(response) ==
    LET converted == convertContentBlocks(response.content)
    IN [message |-> [role |-> "assistant",
                     content |-> IF converted.message \in {None, Some(<<>>)}
                                 THEN None ELSE converted.message,
                     tool_calls |-> converted.toolCalls],
        finish_reason |-> mapStopReason(response.stop_reason,
                                        Len(converted.toolCalls) > 0)]

ConvertAnthropicToOpenAI ==
    /\ anthropicResponse # None
    /\ openaiResponse = None
    /\ openaiResponse' = Some(convertAnthropicToOpenAI(anthropicResponse[1]))
    /\ UNCHANGED <<anthropicResponse, openaiRequest, anthropicRequest>>
    /\ UNCHANGED <<accounts, currentIndex, tokenCache, now, req, served, streamVars, tokenVars,
                   sideVars>>

\* ------------------------------------------------------------------------
\* convertOpenAIToAnthropic (openai-request-converter)
\* ------------------------------------------------------------------------
\* msg.content: a string, an array of parts, or null
StringContent(t) == [kind |-> "string", text |-> t, parts |-> <<>>]
ArrayContent(ps) == [kind |-> "array", text |-> <<>>, parts |-> ps]
NullContent == [kind |-> "null", text |-> <<>>, parts |-> <<>>]

TextPart(t) == [type |-> "text", text |-> t, url |-> Absent]
ImagePart(u) == [type |-> "image_url", text |-> <<>>, url |-> u]

FunctionCall(ty, i, n, args) == [type |-> ty, id |-> i, name |-> n, arguments |-> args]

Message(r, c, tcs, tcid) ==
    [role |-> r, content |-> c, tool_calls |-> tcs, tool_call_id |-> tcid]

\* the tool invocations an assistant message may carry
ToolInvocations ==
    { FunctionCall("function", "call_1", "f", JSONstringify("args_1")),
      FunctionCall("function", "call_2", "g", Malformed("{oops")),
      FunctionCall("custom", "call_3", "h", JSONstringify("args_3")) }

ToolCallLists == UNION { [1 .. n -> ToolInvocations] : n \in 1 .. MaxToolCalls }

\* the messages a chat request may carry
ChatMessages ==
    { Message("system", StringContent(<<"s1">>), <<>>, Absent),
      Message("system", ArrayContent(<<TextPart(<<"s2">>), ImagePart("http://i"),
                                       TextPart(<<"s3">>)>>), <<>>, Absent),
      Message("system", NullContent, <<>>, Absent),
      Message("user", StringContent(<<"u1">>), <<>>, Absent),
      Message("user", ArrayContent(<<TextPart(<<"u2">>), ImagePart("http://i")>>),
              <<>>, Absent),
      Message("assistant", StringContent(<<"a1">>), <<>>, Absent),
      Message("assistant", NullContent, <<>>, Absent),
      Message("tool", StringContent(<<"r1">>), <<>>, "call_1") }
    \cup { Message("assistant", c, tcs, Absent) :
               c \in {NullContent, StringContent(<<"a2">>)}, tcs \in ToolCallLists }

\* String.prototype.trim on a string of pieces
RECURSIVE trim(_)
trim(str) ==
    IF str = <<>> THEN <<>>
    ELSE IF Head(str) = " " THEN trim(Tail(str))
    ELSE IF str[Len(str)] = " " THEN trim(SubSeq(str, 1, Len(str) - 1))
    ELSE str

\* neutral content blocks made by the request converter
ToolResultBlock(i, c) == [type |-> "tool_result", text |-> c, id |-> i, name |-> Absent,
                          input |-> Absent]
ImageBlock(u) == [type |-> "image", text |-> <<>>, id |-> Absent, name |-> Absent,
                  input |-> u]

\* content of a neutral message: a string or an array of blocks
StringBody(t) == [kind |-> "string", text |-> t, blocks |-> <<>>]
BlocksBody(bs) == [kind |-> "blocks", text |-> <<>>, blocks |-> bs]

\* the text parts of a content array whose trimmed text is not empty (all
\* of them when keepBlank)
RECURSIVE TextBlocksOf(_, _)
TextBlocksOf(parts, keepBlank) ==
    IF parts = <<>> THEN <<>>
    ELSE (IF parts[1].type = "text" /\ (keepBlank \/ trim(parts[1].text) # <<>>)
          THEN <<TextBlock(parts[1].text)>> ELSE <<>>)
         \o TextBlocksOf(Tail(parts), keepBlank)

RECURSIVE convertContentArray(_)
convertContentArray(contentArray) ==
    IF contentArray = <<>> THEN <<>>
    ELSE (IF contentArray[1].type = "text" THEN <<TextBlock(contentArray[1].text)>>
          ELSE IF contentArray[1].type = "image_url"
          THEN <<ImageBlock(contentArray[1].url)>>
          ELSE <<>>)
         \o convertContentArray(Tail(contentArray))

\* JSON.parse inside try/catch: the parsed value, or the text under `raw`
ParsedInput(v) == [raw |-> FALSE, value |-> v]
RawInput(t) == [raw |-> TRUE, value |-> t]

ParsedArguments_DropsRaw(arguments) ==
    IF arguments.valid THEN ParsedInput(arguments.text) ELSE ParsedInput(EmptyObject)

ParsedArguments(arguments) ==
    IF arguments.valid THEN ParsedInput(arguments.text) ELSE RawInput(arguments.text)

RECURSIVE ToolUseBlocksOf(_)
ToolUseBlocksOf(toolCalls) ==
    IF toolCalls = <<>> THEN <<>>
    ELSE (IF toolCalls[1].type = "function"
          THEN <<ToolUseBlock(toolCalls[1].id, toolCalls[1].name,
                              ParsedArguments(toolCalls[1].arguments))>>
          ELSE <<>>)
         \o ToolUseBlocksOf(Tail(toolCalls))

\* one turn of the loop of convertMessages
ConvertedMessage(msg) ==
    IF msg.role = "tool"
    THEN [role |-> "user",
          content |-> BlocksBody(<<ToolResultBlock(msg.tool_call_id, msg.content.text)>>)]
    ELSE IF msg.role = "assistant" /\ Len(msg.tool_calls) > 0
    THEN [role |-> "assistant",
          content |-> BlocksBody(
              (IF msg.content.kind = "string" /\ trim(msg.content.text) # <<>>
               THEN <<TextBlock(msg.content.text)>>
               ELSE IF msg.content.kind = "array"
               THEN TextBlocksOf(msg.content.parts, FALSE)
               ELSE <<>>)
              \o ToolUseBlocksOf(msg.tool_calls))]
    ELSE [role |-> IF msg.role = "assistant" THEN "assistant" ELSE "user",
          content |-> IF msg.content.kind = "string" THEN StringBody(msg.content.text)
                      ELSE IF msg.content.kind = "array"
                      THEN BlocksBody(convertContentArray(msg.content.parts))
                      ELSE IF msg.role = "assistant" THEN BlocksBody(<<>>)
                      ELSE StringBody(<<>>)]

convertMessages(messages) == [k \in DOMAIN messages |-> ConvertedMessage(messages[k])]

IsSystem(msg) == msg.role = "system"
NotSystem(msg) == msg.role # "system"

\* the texts one system message adds to systemMessages
SystemTexts(msg) ==
    IF msg.content.kind = "string" THEN <<msg.content.text>>
    ELSE IF msg.content.kind = "array"
    THEN LET texts == TextBlocksOf(msg.content.parts, TRUE)
         IN [k \in DOMAIN texts |-> texts[k].text]
    ELSE <<>>

RECURSIVE systemMessages_Unshifts(_)
systemMessages_Unshifts(messages) ==
    IF messages = <<>> THEN <<>>
    ELSE systemMessages_Unshifts(Tail(messages))
         \o (IF IsSystem(messages[1]) THEN SystemTexts(messages[1]) ELSE <<>>)

RECURSIVE systemMessages(_)
systemMessages(messages) ==
    IF messages = <<>> THEN <<>>
    ELSE (IF IsSystem(messages[1]) THEN SystemTexts(messages[1]) ELSE <<>>)
         \o systemMessages(Tail(messages))

convertOpenAIToAnthropic(request) ==
    LET system == systemMessages(request.messages)
    IN [messages |-> convertMessages(SelectSeq(request.messages, NotSystem)),
        system |-> IF Len(system) > 0 THEN Some(Join(system, <<"\n", "\n">>)) ELSE None]

ConvertOpenAIToAnthropic ==
    /\ openaiRequest # None
    /\ anthropicRequest = None
    /\ anthropicRequest' = Some(convertOpenAIToAnthropic(openaiRequest[1]))
    /\ UNCHANGED <<anthropicResponse, openaiResponse, openaiRequest>>
    /\ UNCHANGED <<accounts, currentIndex, tokenCache, now, req, served, streamVars, tokenVars,
                   sideVars>>

\* ------------------------------------------------------------------------
\* convertStreamToOpenAI on the events of one neutral response, with the
\* texts the events carry.  A string is the sequence of its pieces; the
\* arguments of a tool call are the sequence of their JSON fragments.
\* ------------------------------------------------------------------------
NoBlock == [type |-> Absent, text |-> <<>>, id |-> Absent, name |-> Absent, input |-> Absent]
Delta(ty, t, json, sr) == [type |-> ty, text |-> t, partial_json |-> json, stop_reason |-> sr]
NoDelta == Delta(Absent, <<>>, <<>>, "none")

NeutralEvent(t, i, block, delta) ==
    [type |-> t, index |-> i, content_block |-> block, delta |-> delta]

\* the delta that carries the whole of a block
DeltaOf(block) ==
    IF block.type = "text" THEN Delta("text_delta", block.text, <<>>, "none")
    ELSE IF block.type = "thinking" THEN Delta("thinking_delta", block.text, <<>>, "none")
    ELSE Delta("input_json_delta", <<>>,
               <<JSONstringify(IF block.input = Absent THEN EmptyObject ELSE block.input)>>,
               "none")

\* the events of the first n content blocks
RECURSIVE BlockEvents(_, _)
BlockEvents(content, n) ==
    IF n = 0 THEN <<>>
    ELSE BlockEvents(content, n - 1)
         \o <<NeutralEvent("content_block_start", n - 1, content[n], NoDelta),
               NeutralEvent("content_block_delta", n - 1, NoBlock, DeltaOf(content[n])),
               NeutralEvent("content_block_stop", n - 1, NoBlock, NoDelta)>>

\* the event sequence of a neutral response
EventsOf(response) ==
    <<NeutralEvent("message_start", NoIndex, NoBlock, NoDelta)>>
    \o BlockEvents(response.content, Len(response.content))
    \o <<NeutralEvent("message_delta", NoIndex, NoBlock,
                      Delta(Absent, <<>>, <<>>, response.stop_reason)),
          NeutralEvent("message_stop", NoIndex, NoBlock, NoDelta)>>

\* a chunk of the chat-completion stream ("done": the [DONE] marker)
OpenAIChunk(k, c, ti, i, n, args, fr) ==
    [kind |-> k, content |-> c, tool_index |-> ti, id |-> i, name |-> n,
     arguments |-> args, finish_reason |-> fr]

Yield(st, chunk) == [st EXCEPT !.out = Append(@, chunk)]

\* the body of the switch for one event, from the locals st
Transcode(st, event) ==
    IF event.type = "message_start"
    THEN [Yield(st, OpenAIChunk("role", <<>>, NoIndex, Absent, Absent, <<>>, "null"))
             EXCEPT !.emittedRole = TRUE]
    ELSE IF event.type = "content_block_start"
    THEN IF event.content_block.type = "thinking"
         THEN [Yield(st, OpenAIChunk("content", <<"<thinking>", "\n">>, NoIndex, Absent,
                                     Absent, <<>>, "null"))
                  EXCEPT !.inThinking = TRUE]
         ELSE IF event.content_block.type = "tool_use"
         THEN [Yield(st, OpenAIChunk("tool_start", <<>>, st.currentToolCallIndex + 1,
                                     event.content_block.id, event.content_block.name,
                                     <<>>, "null"))
                  EXCEPT !.currentToolCallIndex = @ + 1]
         ELSE st
    ELSE IF event.type = "content_block_delta"
    THEN IF event.delta.type \in {"thinking_delta", "text_delta"}
         THEN Yield(st, OpenAIChunk("content", event.delta.text, NoIndex, Absent, Absent,
                                    <<>>, "null"))
         ELSE IF event.delta.type = "input_json_delta"
         THEN Yield(st, OpenAIChunk("tool_args", <<>>, st.currentToolCallIndex, Absent,
                                    Absent, event.delta.partial_json, "null"))
         ELSE st
    ELSE IF event.type = "content_block_stop"
    THEN IF st.inThinking
         THEN [Yield(st, OpenAIChunk("content", <<"\n", "</thinking>", "\n">>, NoIndex,
                                     Absent, Absent, <<>>, "null"))
                  EXCEPT !.inThinking = FALSE]
         ELSE st
    ELSE IF event.type = "message_delta"
    THEN Yield(st, OpenAIChunk("finish", <<>>, NoIndex, Absent, Absent, <<>>,
                               mapStopReason(event.delta.stop_reason,
                                             st.currentToolCallIndex >= 0)))
    ELSE IF event.type = "message_stop"
    THEN Yield(st, OpenAIChunk("done", <<>>, NoIndex, Absent, Absent, <<>>, "null"))
    ELSE st

\* the locals of convertStreamToOpenAI after the first n events
RECURSIVE Transcoded(_, _)
Transcoded(events, n) ==
    IF n = 0
    THEN [out |-> <<>>, currentToolCallIndex |-> -1, emittedRole |-> FALSE,
          inThinking |-> FALSE]
    ELSE Transcode(Transcoded(events, n - 1), events[n])

\* convertStreamToOpenAI over the events of the response to convert
ConvertStreamToOpenAI ==
    /\ anthropicResponse # None
    /\ inp = <<>>
    /\ LET events == EventsOf(anthropicResponse[1])
           st == Transcoded(events, Len(events))
       IN /\ inp' = events
          /\ out' = st.out
          /\ currentToolCallIndex' = st.currentToolCallIndex
          /\ emittedRole' = st.emittedRole
          /\ inThinking' = st.inThinking
    /\ UNCHANGED convVars
    /\ UNCHANGED <<accounts, currentIndex, tokenCache, now, req, served, tokenVars, sideVars>>

\* ------------------------------------------------------------------------
\* Helpers over event and output sequences
\* ------------------------------------------------------------------------
SetMax(S) == CHOOSE x \in S : \A y \in S : y <= x

Positions(s, t) == {p \in DOMAIN s : s[p].type = t}
KindPositions(o, k) == {p \in DOMAIN o : o[p].kind = k}
CountKind(o, k) == Cardinality(KindPositions(o, k))

\* position of the latest content_block_start with the index of event p,
\* strictly before p (0 when there is none)
StartOf(s, p) ==
    LET S == {q \in 1 .. (p - 1) :
                 s[q].type = "content_block_start" /\ s[q].index = s[p].index}
    IN IF S = {} THEN 0 ELSE SetMax(S)

BlockTypeOf(s, p) == IF StartOf(s, p) = 0 THEN "none" ELSE s[StartOf(s, p)].sub

\* streaming-event invariant of the data model:
\* content_block_start(i) precedes content_block_delta(i)/content_block_stop(i)
StreamInvariant(s) ==
    \A p \in DOMAIN s :
        s[p].type \in {"content_block_delta", "content_block_stop"} => StartOf(s, p) # 0

\* every delta has the type that goes with the block it belongs to
DeltasTyped(s) ==
    \A p \in Positions(s, "content_block_delta") :
        \/ s[p].sub = "signature_delta" /\ BlockTypeOf(s, p) = "thinking"
        \/ s[p].sub = "thinking_delta" /\ BlockTypeOf(s, p) = "thinking"
        \/ s[p].sub = "text_delta" /\ BlockTypeOf(s, p) = "text"
        \/ s[p].sub = "input_json_delta" /\ BlockTypeOf(s, p) = "tool_use"

\* well-formed stream: message_start first, blocks started before their
\* deltas and stops, one message_delta, then exactly one message_stop
\* closing the sequence, no error event
WellFormed(s) ==
    /\ Len(s) >= 1
    /\ Positions(s, "message_start") = {1}
    /\ StreamInvariant(s)
    /\ Cardinality(Positions(s, "message_delta")) = 1
    /\ Positions(s, "message_stop") = {Len(s)}
    /\ Positions(s, "error") = {}

\* tool-call ordinal (0-based) of the tool_use block started at position q
ToolOrdinal(s, q) ==
    Cardinality({r \in 1 .. q :
                    s[r].type = "content_block_start" /\ s[r].sub = "tool_use"}) - 1

\* number of thinking delimiters of one sort among the first n output items
Delims(o, n, d) ==
    Cardinality({p \in 1 .. n : o[p].kind = "content" /\ o[p].content = d})

\* nesting depth of thinking delimiters just before output item p
ThinkDepth(o, p) == Delims(o, p - 1, ThinkOpen) - Delims(o, p - 1, ThinkClose)

\* ------------------------------------------------------------------------
\* Properties of convertStreamToOpenAI
\* ------------------------------------------------------------------------

\* C1: for every well-formed event sequence the output holds exactly one
\* terminal marker, the marker is the last item, and a finish-reason chunk
\* precedes it.
C1_OneTerminalMarkerLast ==
    WellFormed(inp) =>
        /\ CountKind(out, "done") = 1
        /\ out[Len(out)].kind = "done"
        /\ \E p \in KindPositions(out, "finish") : p < Len(out)

\* C1 witness: a well-formed stream with a tool call has been transcoded
\* completely.
C1_Witness ==
    /\ WellFormed(inp)
    /\ Len(inp) = 4
    /\ CountKind(out, "tool_start") = 1
    /\ out[Len(out)].kind = "done"

\* C2 (as claimed): whenever an error event occurred, every error chunk is
\* immediately followed by the terminal marker, the output holds exactly
\* one terminal marker and nothing follows it.
C2_ErrorWellTerminated ==
    Positions(inp, "error") # {} =>
        /\ \A p \in KindPositions(out, "error") :
               p < Len(out) /\ out[p + 1].kind = "done"
        /\ CountKind(out, "done") = 1
        /\ out[Len(out)].kind = "done"

\* C3 (as claimed): under the streaming-event invariant the k-th tool_use
\* start is emitted with index k-1 and every input_json_delta fragment is
\* emitted with the index assigned to the tool_use block it belongs to.
C3_ToolIndexAttribution ==
    StreamInvariant(inp) =>
        /\ \A p \in KindPositions(out, "tool_start") :
               out[p].tool_index = ToolOrdinal(inp, out[p].at)
        /\ \A p \in KindPositions(out, "tool_args") :
               BlockTypeOf(inp, out[p].at) = "tool_use" =>
                   out[p].tool_index = ToolOrdinal(inp, StartOf(inp, out[p].at))

\* C4 (as claimed): under the streaming-event invariant (deltas typed as
\* their block) the stop of a thinking block emits the closing delimiter,
\* thinking deltas lie inside a delimiter pair, text deltas outside, and
\* delimiters are balanced before the finish-reason chunk.
C4_ThinkingDelimiters ==
    (StreamInvariant(inp) /\ DeltasTyped(inp)) =>
        /\ \A q \in Positions(inp, "content_block_start") :
               inp[q].sub = "thinking" =>
                   \E p \in DOMAIN out : out[p].at = q /\ out[p].content = ThinkOpen
        /\ \A q \in Positions(inp, "content_block_stop") :
               BlockTypeOf(inp, q) = "thinking" =>
                   \E p \in DOMAIN out : out[p].at = q /\ out[p].content = ThinkClose
        /\ \A p \in KindPositions(out, "content") :
               /\ out[p].content = "thinking" => ThinkDepth(out, p) = 1
               /\ out[p].content = "text" => ThinkDepth(out, p) = 0
        /\ \A p \in KindPositions(out, "finish") : ThinkDepth(out, p) = 0

\* C39: whenever convertStreamToOpenAI has emitted anything, the output
\* holds the assistant-role preamble chunk exactly once, and every content,
\* tool-call, finish-reason and error chunk comes after it.
C39_RolePreambleOnceFirst ==
    out # <<>> =>
        /\ CountKind(out, "role") = 1
        /\ \A p \in DOMAIN out :
               out[p].kind \in {"content", "tool_start", "tool_args", "finish", "error"} =>
                   \E q \in KindPositions(out, "role") : q < p

\* ------------------------------------------------------------------------
\* Streaming against non-streaming conversion (specification SpecAgree)
\* ------------------------------------------------------------------------
\* the content deltas of the first n chunks, concatenated
RECURSIVE ContentDeltas(_, _)
ContentDeltas(o, n) ==
    IF n = 0 THEN <<>>
    ELSE ContentDeltas(o, n - 1)
         \o (IF o[n].kind \in {"role", "content"} THEN o[n].content ELSE <<>>)

\* the argument fragments of tool call ti among the first n chunks,
\* concatenated
RECURSIVE ArgumentDeltas(_, _, _)
ArgumentDeltas(o, n, ti) ==
    IF n = 0 THEN <<>>
    ELSE ArgumentDeltas(o, n - 1, ti)
         \o (IF o[n].kind \in {"tool_start", "tool_args"} /\ o[n].tool_index = ti
              THEN o[n].arguments ELSE <<>>)

IsToolStart(chunk) == chunk.kind = "tool_start"

\* the tool calls a chunk sequence adds up to, in the order they start
StreamedToolCalls(o) ==
    LET starts == SelectSeq(o, IsToolStart)
    IN [k \in DOMAIN starts |->
           [id |-> starts[k].id, name |-> starts[k].name,
            arguments |-> ArgumentDeltas(o, Len(o), starts[k].tool_index)]]

\* message.content as a string (null: the empty string)
ContentString(content) == IF content = None THEN <<>> ELSE content[1]

\* C37: for a neutral response of text, thinking and tool_use blocks with
\* a stop reason, the content deltas of convertStreamToOpenAI concatenate
\* to the message content of convertAnthropicToOpenAI, the tool calls have
\* the same id, name and arguments in the same order, and the finish
\* reason is the same.
C37_StreamingAgrees ==
    (openaiResponse # None /\ out # <<>> /\ anthropicResponse[1].stop_reason # "none") =>
        LET whole == openaiResponse[1]
            calls1 == whole.message.tool_calls
            calls2 == StreamedToolCalls(out)
        IN /\ ContentDeltas(out, Len(out)) = ContentString(whole.message.content)
           /\ Len(calls2) = Len(calls1)
           /\ \A k \in DOMAIN calls1 :
                  /\ calls2[k].id = calls1[k].id
                  /\ calls2[k].name = calls1[k].name
                  /\ calls2[k].arguments = <<calls1[k].arguments>>
           /\ \A p \in KindPositions(out, "finish") :
                  out[p].finish_reason = whole.finish_reason

\* ------------------------------------------------------------------------
\* Finish reasons
\* ------------------------------------------------------------------------
IsBlockStart(e) == e.type = "content_block_start"

BlockOfType(bt) ==
    IF bt = "tool_use" THEN ToolUseBlock("call_1", "f", "args_1")
    ELSE IF bt = "thinking" THEN ThinkingBlock(<<"t">>)
    ELSE TextBlock(<<"a">>)

\* the neutral response whose content blocks are the blocks started in s
\* and whose stop reason is the one of the latest message_delta of s
Assembled(s) ==
    LET starts == SelectSeq(s, IsBlockStart)
        deltas == Positions(s, "message_delta")
    IN [content |-> [k \in 1 .. Len(starts) |-> BlockOfType(starts[k].sub)],
        stop_reason |-> IF deltas = {} THEN "none" ELSE s[SetMax(deltas)].sub]

HasToolUse(content) == \E k \in DOMAIN content : content[k].type = "tool_use"

\* a tool_use block started in s before position p
ToolStartedBefore(s, p) ==
    \E q \in 1 .. (p - 1) : IsBlockStart(s[q]) /\ s[q].sub = "tool_use"

\* the finish reason claimed for stop reason sr
FinishReasonOk(fr, sr, hasToolUse) ==
    /\ hasToolUse => fr = "tool_calls"
    /\ (~hasToolUse /\ sr \in {"end_turn", "stop_sequence"}) => fr = "stop"
    /\ (~hasToolUse /\ sr = "max_tokens") => fr = "length"
    /\ (~hasToolUse /\ sr = "tool_use") => fr = "tool_calls"

Accounts == DOMAIN accounts
\* getAccountCount
getAccountCount == Cardinality(Accounts)
Models == {"m1", "m2"}

NoAccount == -1
NoTime == -1
\* an account record without a refresh token
NoToken == 0

\* policy values (seconds)
MAX_WAIT_BEFORE_ERROR_MS == 120
DEFAULT_COOLDOWN_MS == 60
TOKEN_REFRESH_INTERVAL_MS == 300

\* the clock advances in steps of TickStep
TickStep == 150
\* rate-limit windows left over in the account-pool descriptor
ConfiguredResets == {90, 120, 121}
\* the model whose windows the descriptor may carry over
ConfiguredModel == "m1"
\* reset delays the upstream reports with a rate-limit error (0: none given)
UpstreamResets == {0, 120, 121, 1800}

NoLimit == [isRateLimited |-> FALSE, resetTime |-> NoTime]
Limit(t) == [isRateLimited |-> TRUE, resetTime |-> t]

\* ------------------------------------------------------------------------
\* Rate-Limit Tracker (account-manager/rate-limits.js)
\* ------------------------------------------------------------------------
isActive(limit, t) == limit.isRateLimited /\ limit.resetTime > t

clearLimits_KeepsBoundary(accts, t) ==
    [a \in DOMAIN accts |->
        [accts[a] EXCEPT !.modelRateLimits =
            [m \in Models |->
                IF accts[a].modelRateLimits[m].isRateLimited
                   /\ accts[a].modelRateLimits[m].resetTime < t
                THEN [accts[a].modelRateLimits[m] EXCEPT !.isRateLimited = FALSE]
                ELSE accts[a].modelRateLimits[m]]]]

clearLimits(accts, t) ==
    [a \in DOMAIN accts |->
        [accts[a] EXCEPT !.modelRateLimits =
            [m \in Models |->
                IF accts[a].modelRateLimits[m].isRateLimited
                   /\ accts[a].modelRateLimits[m].resetTime <= t
                THEN [accts[a].modelRateLimits[m] EXCEPT !.isRateLimited = FALSE]
                ELSE accts[a].modelRateLimits[m]]]]

resetLimits(accts) ==
    [a \in DOMAIN accts |-> [accts[a] EXCEPT !.modelRateLimits = [m \in Models |-> NoLimit]]]

checkAllRateLimited_IgnoresExpiry(accts, m, t) ==
    \A a \in DOMAIN accts :
        ~accts[a].isInvalid => accts[a].modelRateLimits[m].isRateLimited

checkAllRateLimited(accts, m, t) ==
    \A a \in DOMAIN accts :
        ~accts[a].isInvalid => isActive(accts[a].modelRateLimits[m], t)

markLimited(accts, a, resetMs, m, t) ==
    [accts EXCEPT ![a].modelRateLimits[m] =
        Limit(t + (IF resetMs = 0 THEN DEFAULT_COOLDOWN_MS ELSE resetMs))]

markAccountInvalid(accts, a, reason) ==
    [accts EXCEPT ![a].isInvalid = TRUE, ![a].invalidReason = reason]

isUsable(acc, m, t) == ~acc.isInvalid /\ ~isActive(acc.modelRateLimits[m], t)

getAvailable(accts, m, t) == {a \in DOMAIN accts : isUsable(accts[a], m, t)}

\* ------------------------------------------------------------------------
\* Account Selector (account-manager/selection.js)
\* ------------------------------------------------------------------------
Selection(a, w, i, accts) ==
    [account |-> a, waitMs |-> w, newIndex |-> i, accounts |-> accts]

\* circular scan that starts right after the pointer and ends on it
ScanOrder(idx) == [k \in 1 .. getAccountCount |-> (idx + k) % getAccountCount]

selectNext(accts, idx, m, t) ==
    LET cleared == clearLimits(accts, t)
        order == ScanOrder(idx)
        hits == {k \in 1 .. getAccountCount : isUsable(cleared[order[k]], m, t)}
    IN IF hits = {}
       THEN Selection(NoAccount, 0, idx, cleared)
       ELSE LET first == CHOOSE k \in hits : \A j \in hits : k <= j
            IN Selection(order[first], 0, order[first], cleared)

\* (no account at the pointer: nothing to stick to, nothing to wait for)
getSticky(accts, idx, m, t) ==
    LET cleared == clearLimits(accts, t)
    IN IF idx \in DOMAIN cleared /\ isUsable(cleared[idx], m, t)
       THEN Selection(idx, 0, idx, cleared)
       ELSE Selection(NoAccount, 0, idx, cleared)

shouldWait(accts, idx, m, t) ==
    LET acc == accts[idx]
        waitMs == acc.modelRateLimits[m].resetTime - t
    IN IF /\ idx \in DOMAIN accts
          /\ isActive(acc.modelRateLimits[m], t)
          /\ waitMs <= MAX_WAIT_BEFORE_ERROR_MS
       THEN [shouldWait |-> TRUE, waitMs |-> waitMs]
       ELSE [shouldWait |-> FALSE, waitMs |-> 0]

selectSticky(accts, idx, m, t) ==
    LET sticky == getSticky(accts, idx, m, t)
        waitInfo == shouldWait(sticky.accounts, idx, m, t)
    IN IF sticky.account # NoAccount
       THEN sticky
       ELSE IF waitInfo.shouldWait
       THEN Selection(NoAccount, waitInfo.waitMs, idx, sticky.accounts)
       ELSE selectNext(sticky.accounts, idx, m, t)


\* ------------------------------------------------------------------------
\* WorkerAccountManager (worker/src/account-manager.js): the methods read
\* #accounts, #currentIndex and Date.now()
\* ------------------------------------------------------------------------
isAllRateLimited(m) == checkAllRateLimited(accounts, m, now)

resetAllRateLimits == resetLimits(accounts)

\* pickNext / pickStickyAccount on a manager holding accts and idx: the
\* result carries the account store and the pointer the call leaves behind
pickNext(accts, idx, m) == selectNext(accts, idx, m, now)

pickStickyAccount_Rotating(accts, idx, m) == selectNext(accts, idx, m, now)

pickStickyAccount_DropsWait(accts, idx, m) ==
    [selectSticky(accts, idx, m, now) EXCEPT !.waitMs = 0]

pickStickyAccount_KeepsIndex(accts, idx, m) ==
    [selectSticky(accts, idx, m, now) EXCEPT !.newIndex = idx]

pickStickyAccount(accts, idx, m) == selectSticky(accts, idx, m, now)

tokenCached_NoExpiry(a) == tokenCache[a] # NoTime

tokenCached(a) ==
    tokenCache[a] # NoTime /\ (now - tokenCache[a]) < TOKEN_REFRESH_INTERVAL_MS

\* ------------------------------------------------------------------------
\* Requests
\* ------------------------------------------------------------------------
Retryable == {"RateLimited", "AuthInvalid"}
NonRetryable == {"AuthNetworkError", "InvalidArgument", "UpstreamUnavailable", "Unknown"}

NewRequest ==
    [pc |-> "new", endpoint |-> "none", model |-> "none", account |-> NoAccount,
     waitMs |-> 0, attempt |-> 0, tried |-> <<>>, lastError |-> "none",
     lastReset |-> 0,
     result |-> "none", error |-> "none", optimisticReset |-> FALSE,
     stream |-> FALSE, body |-> <<>>, closed |-> FALSE, cancelled |-> FALSE,
     pulled |-> 0, upstreamOpen |-> FALSE, messages |-> "none"]

Range(f) == {f[x] : x \in DOMAIN f}

\* items of a streamed response body
EventItem(n) == [kind |-> "event", n |-> n]
ErrorItem == [kind |-> "error", n |-> 0]
DoneItem == [kind |-> "done", n |-> 0]

streamError_Silent(ep) == <<>>

\* what the catch block of the stream body enqueues
streamError(ep) ==
    IF ep = "chat" THEN <<ErrorItem, DoneItem>> ELSE <<ErrorItem>>

\* the catch block of the stream body: enqueue the error, close.  After a
\* cancellation the stream takes no chunk: enqueue throws and start rejects
Caught(r) ==
    IF r.cancelled
    THEN [r EXCEPT !.upstreamOpen = FALSE]
    ELSE [r EXCEPT !.body = @ \o streamError(r.endpoint), !.closed = TRUE,
                   !.upstreamOpen = FALSE]

\* the request ends: a failure of a streamed response lands in the catch
\* block of its stream body, any other result is returned as JSON
Finish(res, err) ==
    LET r == [req EXCEPT !.pc = "done", !.result = res, !.error = err]
    IN IF req.stream /\ res = "error" THEN Caught(r) ELSE r

\* ------------------------------------------------------------------------
\* HTTP boundary (worker/src/index.js)
\* ------------------------------------------------------------------------
\* what handleMessages and handleChatCompletions leave in the request once
\* the messages field has been validated
Validated(ep, m, messages, messagesOk, wasAllLimited, stream) ==
    IF messagesOk
    THEN [req EXCEPT !.pc = "select", !.endpoint = ep, !.model = m,
                     !.optimisticReset = wasAllLimited, !.stream = stream,
                     !.messages = messages]
    ELSE [req EXCEPT !.pc = "done", !.endpoint = ep, !.model = m,
                     !.result = "bad_request", !.error = "InvalidArgument",
                     !.optimisticReset = wasAllLimited, !.messages = messages]

\* the messages field of a request body: an array, absent (or null), a
\* string.  (A value that is neither falsy nor iterable makes
\* convertOpenAIToAnthropic throw; fetch answers it as HandlerThrows says.)
MessagesFields == {"array", "missing", "string"}

\* !messages || !Array.isArray(messages) does not hold
isArray(messages) == messages = "array"

\* the messages of the request convertOpenAIToAnthropic returns: what
\* convertMessages builds from the elements of `messages || []` that are
\* not system messages, an array whatever the field was
convertedMessages(messages) ==
    CASE messages = "array" -> "array"
      [] messages = "missing" -> "array"
      [] messages = "string" -> "array"

HandleMessages_NoReset(m, messages, stream) ==
    /\ req.pc = "new"
    /\ served < MaxRequests
    /\ served' = served + 1
    /\ req' = Validated("messages", m, messages, isArray(messages), isAllRateLimited(m), stream)
    /\ UNCHANGED <<accounts, currentIndex, tokenCache, now, streamVars, convVars, sideVars, tokenVars>>

\* handleMessages up to the call of the dispatcher
HandleMessages(m, messages, stream) ==
    /\ req.pc = "new"
    /\ served < MaxRequests
    /\ served' = served + 1
    /\ accounts' = IF isAllRateLimited(m) THEN resetAllRateLimits ELSE accounts
    /\ req' = Validated("messages", m, messages, isArray(messages), isAllRateLimited(m), stream)
    /\ UNCHANGED <<currentIndex, tokenCache, now, streamVars, convVars, sideVars, tokenVars>>

HandleChatCompletions_NoReset(m, messages, stream) ==
    /\ req.pc = "new"
    /\ served < MaxRequests
    /\ served' = served + 1
    /\ req' = Validated("chat", m, messages, isArray(convertedMessages(messages)),
                         isAllRateLimited(m), stream)
    /\ UNCHANGED <<accounts, currentIndex, tokenCache, now, streamVars, convVars, sideVars, tokenVars>>

\* handleChatCompletions up to the call of the dispatcher
HandleChatCompletions(m, messages, stream) ==
    /\ req.pc = "new"
    /\ served < MaxRequests
    /\ served' = served + 1
    /\ accounts' = IF isAllRateLimited(m) THEN resetAllRateLimits ELSE accounts
    /\ req' = Validated("chat", m, messages, isArray(convertedMessages(messages)),
                         isAllRateLimited(m), stream)
    /\ UNCHANGED <<currentIndex, tokenCache, now, streamVars, convVars, sideVars, tokenVars>>

\* the response has been written; the next request may come
Respond ==
    /\ req.pc = "done"
    /\ req' = NewRequest
    /\ UNCHANGED <<accounts, currentIndex, tokenCache, now, served, streamVars, convVars, sideVars, tokenVars>>

\* ------------------------------------------------------------------------
\* Dispatcher (cloudcode/index.js: sendMessage, sendMessageStream)
\* ------------------------------------------------------------------------
ExhaustionError_AlwaysRateLimited(accts) == "RateLimited"

ExhaustionError(accts) ==
    IF \A a \in Accounts : accts[a].isInvalid THEN "AuthInvalid" ELSE "RateLimited"

\* the request after a selection that returned no account
NoAccountLeft(sel) ==
    [Finish("error", IF req.lastError # "none" THEN req.lastError
                     ELSE ExhaustionError(sel.accounts))
       EXCEPT !.waitMs = sel.waitMs, !.account = NoAccount]

\* the request after a selection that returned account sel.account
Attempt(sel) ==
    [req EXCEPT !.pc = "token", !.account = sel.account, !.waitMs = 0,
                !.attempt = @ + 1, !.tried = Append(@, sel.account)]

SelectAccount_Unbounded ==
    /\ req.pc = "select"
    /\ LET sel == pickStickyAccount(accounts, currentIndex, req.model)
       IN /\ accounts' = sel.accounts
          /\ currentIndex' = sel.newIndex
          /\ req' = IF sel.account = NoAccount THEN NoAccountLeft(sel) ELSE Attempt(sel)
    /\ UNCHANGED <<tokenCache, now, served, streamVars, convVars, sideVars, tokenVars>>

\* one turn of the retry loop: bound test, selection, excluded-accounts test
SelectAccount ==
    /\ req.pc = "select"
    /\ IF req.attempt >= getAccountCount
       THEN /\ req' = Finish("error", req.lastError)
            /\ UNCHANGED <<accounts, currentIndex>>
       ELSE LET sel == pickStickyAccount(accounts, currentIndex, req.model)
            IN /\ accounts' = sel.accounts
               /\ currentIndex' = sel.newIndex
               /\ req' = IF sel.account = NoAccount
                         THEN NoAccountLeft(sel)
                         ELSE IF sel.account \in Range(req.tried)
                         THEN [Finish("error", req.lastError) EXCEPT !.account = NoAccount]
                         ELSE Attempt(sel)
    /\ UNCHANGED <<tokenCache, now, served, streamVars, convVars, sideVars, tokenVars>>

\* ------------------------------------------------------------------------
\* getTokenForAccount (worker/src/account-manager.js)
\* ------------------------------------------------------------------------
\* isNetworkError (utils/helpers.js) on the failure of the refresh exchange
isNetworkError(outcome) == outcome = "network"

\* getTokenForAccount past the cache lookup, up to its first suspension:
\* the refresh exchange is started, or the manual key is returned and
\* cached, or the source is unsupported
getTokenMiss(cache, a) ==
    IF accounts[a].source = "oauth" /\ accounts[a].refreshToken # NoToken
    THEN [status |-> "refresh", accounts |-> accounts, tokenCache |-> cache]
    ELSE IF accounts[a].source = "manual" /\ accounts[a].apiKey
    THEN [status |-> "manual", accounts |-> accounts,
          tokenCache |-> [cache EXCEPT ![a] = now]]
    ELSE [status |-> "AUTH_INVALID",
          accounts |-> markAccountInvalid(accounts, a, "unsupported"),
          tokenCache |-> cache]

\* getTokenForAccount up to its first suspension
getTokenSync(a) ==
    IF tokenCached(a)
    THEN [status |-> "cached", accounts |-> accounts, tokenCache |-> tokenCache]
    ELSE getTokenMiss(tokenCache, a)

getTokenSettled_KeepsInvalid(a, outcome, r) ==
    IF outcome = "ok"
    THEN [status |-> "refreshed",
          accounts |-> [accounts EXCEPT
              ![a].refreshToken = IF r # NoToken /\ r # @ THEN r ELSE @],
          tokenCache |-> [tokenCache EXCEPT ![a] = now]]
    ELSE IF isNetworkError(outcome)
    THEN [status |-> "AUTH_NETWORK_ERROR", accounts |-> accounts,
          tokenCache |-> tokenCache]
    ELSE [status |-> "AUTH_INVALID",
          accounts |-> markAccountInvalid(accounts, a, outcome),
          tokenCache |-> tokenCache]

getTokenSettled_InvalidOnAnyFailure(a, outcome, r) ==
    IF outcome = "ok"
    THEN [status |-> "refreshed",
          accounts |-> [accounts EXCEPT
              ![a].refreshToken = IF r # NoToken /\ r # @ THEN r ELSE @,
              ![a].isInvalid = FALSE, ![a].invalidReason = "null"],
          tokenCache |-> [tokenCache EXCEPT ![a] = now]]
    ELSE [status |-> IF isNetworkError(outcome) THEN "AUTH_NETWORK_ERROR"
                     ELSE "AUTH_INVALID",
          accounts |-> markAccountInvalid(accounts, a, outcome),
          tokenCache |-> tokenCache]

\* refreshAccessToken (auth/oauth-client.js): what it returns for a response
\* of the identity provider that carries refresh token r (NoToken: none).
\* Only access_token and expires_in are copied
refreshAccessToken(r) == [accessToken |-> TRUE, refreshToken |-> NoToken]

getTokenSettled_KeepsFreshEntry(a, outcome, r) ==
    IF outcome = "ok"
    THEN [status |-> "refreshed",
          accounts |-> [accounts EXCEPT
              ![a].refreshToken = IF r # NoToken /\ r # @ THEN r ELSE @,
              ![a].isInvalid = FALSE, ![a].invalidReason = "null"],
          tokenCache |-> IF tokenCached(a) THEN tokenCache
                         ELSE [tokenCache EXCEPT ![a] = now]]
    ELSE IF isNetworkError(outcome)
    THEN [status |-> "AUTH_NETWORK_ERROR", accounts |-> accounts,
          tokenCache |-> tokenCache]
    ELSE [status |-> "AUTH_INVALID",
          accounts |-> markAccountInvalid(accounts, a, outcome),
          tokenCache |-> tokenCache]

\* getTokenForAccount after refreshAccessToken settled; outcome is "ok" or
\* the message of the failure, r is tokens.refreshToken
getTokenSettled(a, outcome, r) ==
    IF outcome = "ok"
    THEN [status |-> "refreshed",
          accounts |-> [accounts EXCEPT
              ![a].refreshToken = IF r # NoToken /\ r # @ THEN r ELSE @,
              ![a].isInvalid = FALSE, ![a].invalidReason = "null"],
          tokenCache |-> [tokenCache EXCEPT ![a] = now]]
    ELSE IF isNetworkError(outcome)
    THEN [status |-> "AUTH_NETWORK_ERROR", accounts |-> accounts,
          tokenCache |-> tokenCache]
    ELSE [status |-> "AUTH_INVALID",
          accounts |-> markAccountInvalid(accounts, a, outcome),
          tokenCache |-> tokenCache]

\* the dispatcher calls getTokenForAccount for the account it selected
TokenStart ==
    /\ req.pc = "token"
    /\ LET r == getTokenSync(req.account)
       IN /\ accounts' = r.accounts
          /\ tokenCache' = r.tokenCache
          /\ req' = IF r.status \in {"cached", "manual"}
                    THEN [req EXCEPT !.pc = "upstream"]
                    ELSE IF r.status = "refresh"
                    THEN [req EXCEPT !.pc = "refreshing"]
                    ELSE \* AUTH_INVALID is thrown: the dispatcher retries
                         [req EXCEPT !.pc = "select", !.lastError = "AuthInvalid"]
    /\ UNCHANGED <<currentIndex, now, served, streamVars, convVars, sideVars, tokenVars>>

RefreshOutcomes == {"ok", "network", "rejected"}

TokenFinish_MarkOnNetworkError(outcome) ==
    /\ req.pc = "refreshing"
    /\ LET a == req.account
       IN IF outcome = "ok"
          THEN /\ accounts' = [accounts EXCEPT ![a].isInvalid = FALSE,
                                               ![a].invalidReason = "null"]
               /\ tokenCache' = [tokenCache EXCEPT ![a] = now]
               /\ req' = [req EXCEPT !.pc = "upstream"]
          ELSE IF outcome = "network"
          THEN /\ accounts' = markAccountInvalid(accounts, a, "refresh failed")
               /\ req' = [Finish("error", "AuthNetworkError")
                            EXCEPT !.lastError = "AuthNetworkError"]
               /\ UNCHANGED tokenCache
          ELSE /\ accounts' = markAccountInvalid(accounts, a, "refresh failed")
               /\ req' = [req EXCEPT !.pc = "select", !.lastError = "AuthInvalid"]
               /\ UNCHANGED tokenCache
    /\ UNCHANGED <<currentIndex, now, served, streamVars, convVars, sideVars, tokenVars>>

\* the refresh exchange of the dispatcher's call settled (the response
\* carries no refresh token)
TokenFinish(outcome) ==
    /\ req.pc = "refreshing"
    /\ LET r == getTokenSettled(req.account, outcome,
                                refreshAccessToken(NoToken).refreshToken)
       IN /\ accounts' = r.accounts
          /\ tokenCache' = r.tokenCache
          /\ req' = IF r.status = "refreshed"
                    THEN [req EXCEPT !.pc = "upstream"]
                    ELSE IF r.status = "AUTH_NETWORK_ERROR"
                    THEN [Finish("error", "AuthNetworkError")
                            EXCEPT !.lastError = "AuthNetworkError"]
                    ELSE [req EXCEPT !.pc = "select", !.lastError = "AuthInvalid"]
    /\ UNCHANGED <<currentIndex, now, served, streamVars, convVars, sideVars, tokenVars>>

\* ------------------------------------------------------------------------
\* Callers of getTokenForAccount running side by side (handleHealth,
\* handleAccountLimits, handleRefreshToken, handleModels, the dispatcher)
\* ------------------------------------------------------------------------
Callers == 1 .. NumCallers

\* refresh tokens a response of the identity provider may carry
IssuedRefreshTokens == 0 .. MaxRefreshTokens

\* outcomes of the refresh exchange: "ok" or the message of the failure
ExchangeOutcomes == {"ok", "network", "invalid_grant"}

IdleCall ==
    [pc |-> "idle", handler |-> "none", account |-> NoAccount, sent |-> NoToken,
     exchanges |-> 0, status |-> "none", failure |-> "none", got |-> NoToken]

\* a call after the part of getTokenForAccount that ran without
\* suspension; h is the handler that made the call
Started(h, a, r) ==
    [handler |-> h, failure |-> "none", got |-> NoToken,
     pc |-> IF r.status = "refresh" THEN "refreshing"
            ELSE IF r.status \in {"cached", "manual"} THEN "returned"
            ELSE "thrown",
     account |-> a,
     sent |-> IF r.status = "refresh" THEN accounts[a].refreshToken ELSE NoToken,
     exchanges |-> IF r.status = "refresh" THEN 1 ELSE 0,
     status |-> r.status]

\* a caller passes an account it found not invalid to getTokenForAccount
CallGetToken(c, a) ==
    /\ calls[c].pc = "idle"
    /\ a \in Accounts
    /\ ~accounts[a].isInvalid
    /\ LET r == getTokenSync(a)
       IN /\ accounts' = r.accounts
          /\ tokenCache' = r.tokenCache
          /\ calls' = [calls EXCEPT ![c] = Started("any", a, r)]
          /\ resolvedAt' = IF r.status \in {"cached", "manual"}
                           THEN [resolvedAt EXCEPT ![a] = now]
                           ELSE resolvedAt
    /\ UNCHANGED <<currentIndex, now, req, served, streamVars, convVars, sideVars>>

\* the refresh exchange of a call settled: it failed with message outcome,
\* or the identity provider answered with refresh token r (NoToken: none)
GetTokenFinish(c, outcome, r) ==
    /\ calls[c].pc = "refreshing"
    /\ outcome # "ok" => r = NoToken
    /\ LET a == calls[c].account
           res == getTokenSettled(a, outcome, refreshAccessToken(r).refreshToken)
       IN /\ accounts' = res.accounts
          /\ tokenCache' = res.tokenCache
          /\ calls' = [calls EXCEPT
                 ![c].pc = IF res.status = "refreshed" THEN "returned" ELSE "thrown",
                 ![c].status = res.status,
                 ![c].failure = IF outcome = "ok" THEN "none" ELSE outcome,
                 ![c].got = r]
          /\ resolvedAt' = IF res.status = "refreshed"
                           THEN [resolvedAt EXCEPT ![a] = now]
                           ELSE resolvedAt
    /\ UNCHANGED <<currentIndex, now, req, served, streamVars, convVars, sideVars>>

\* the caller has its token or its error
CallReturn(c) ==
    /\ calls[c].pc \in {"returned", "thrown"}
    /\ calls' = [calls EXCEPT ![c] = IdleCall]
    /\ UNCHANGED <<accounts, currentIndex, tokenCache, now, req, served,
                   resolvedAt, streamVars, convVars, sideVars>>

\* handleRefreshToken: clear the token cache, then resolve a token for the
\* first available account, if any
HandleRefreshToken(c) ==
    /\ calls[c].pc = "idle"
    /\ LET cleared == [a \in Accounts |-> NoTime]
           avail == {a \in Accounts : ~accounts[a].isInvalid}
       IN IF avail = {}
          THEN /\ tokenCache' = cleared
               /\ UNCHANGED <<accounts, calls, resolvedAt>>
          ELSE LET first == CHOOSE a \in avail : \A b \in avail : a <= b
                   r == getTokenMiss(cleared, first)
               IN /\ accounts' = r.accounts
                  /\ tokenCache' = r.tokenCache
                  /\ calls' = [calls EXCEPT ![c] = Started("refresh-token", first, r)]
                  /\ resolvedAt' = IF r.status = "manual"
                                   THEN [resolvedAt EXCEPT ![first] = now]
                                   ELSE resolvedAt
    /\ UNCHANGED <<currentIndex, now, req, served, streamVars, convVars, sideVars>>

\* handleHealth: getStatus reads the store; then one async function per
\* account runs up to its first suspension, in the order of the accounts.
\* An account that is not invalid gets a getTokenForAccount call (the call
\* of account a is call a + 1); getModelQuotas takes the token alone.
HandleHealth_TouchesLastUsed ==
    LET valid == {a \in Accounts : ~accounts[a].isInvalid}
    IN /\ valid # {}
       /\ \A a \in valid : (a + 1) \in Callers /\ calls[a + 1].pc = "idle"
       /\ accounts' = [a \in Accounts |->
              IF a \in valid THEN [getTokenSync(a).accounts[a] EXCEPT !.lastUsed = now]
              ELSE accounts[a]]
       /\ tokenCache' = [a \in Accounts |->
              IF a \in valid THEN getTokenSync(a).tokenCache[a] ELSE tokenCache[a]]
       /\ calls' = [c \in Callers |->
              IF (c - 1) \in valid THEN Started("health", c - 1, getTokenSync(c - 1))
              ELSE calls[c]]
       /\ resolvedAt' = [a \in DOMAIN resolvedAt |->
              IF a \in valid /\ getTokenSync(a).status \in {"cached", "manual"}
              THEN now ELSE resolvedAt[a]]
       /\ UNCHANGED <<currentIndex, now, req, served, streamVars, convVars, sideVars>>

HandleHealth ==
    LET valid == {a \in Accounts : ~accounts[a].isInvalid}
    IN /\ valid # {}
       /\ \A a \in valid : (a + 1) \in Callers /\ calls[a + 1].pc = "idle"
       /\ accounts' = [a \in Accounts |->
              IF a \in valid THEN getTokenSync(a).accounts[a] ELSE accounts[a]]
       /\ tokenCache' = [a \in Accounts |->
              IF a \in valid THEN getTokenSync(a).tokenCache[a] ELSE tokenCache[a]]
       /\ calls' = [c \in Callers |->
              IF (c - 1) \in valid THEN Started("health", c - 1, getTokenSync(c - 1))
              ELSE calls[c]]
       /\ resolvedAt' = [a \in DOMAIN resolvedAt |->
              IF a \in valid /\ getTokenSync(a).status \in {"cached", "manual"}
              THEN now ELSE resolvedAt[a]]
       /\ UNCHANGED <<currentIndex, now, req, served, streamVars, convVars, sideVars>>

\* the upstream rejected the credential of account a: the dispatcher marks
\* the account invalid
UpstreamRejects(a) ==
    /\ a \in Accounts
    /\ ~accounts[a].isInvalid
    /\ accounts' = markAccountInvalid(accounts, a, "upstream rejected")
    /\ UNCHANGED <<currentIndex, tokenCache, now, req, served, tokenVars, streamVars, convVars, sideVars>>

\* time passes by one token TTL
TickTTL ==
    /\ now + TOKEN_REFRESH_INTERVAL_MS <= MaxTokenTime
    /\ now' = now + TOKEN_REFRESH_INTERVAL_MS
    /\ UNCHANGED <<accounts, currentIndex, tokenCache, req, served, tokenVars,
                   streamVars, convVars, sideVars>>

UpstreamOutcomes == {"ok"} \cup Retryable \cup (NonRetryable \ {"AuthNetworkError"})

\* the upstream call settled
CallUpstream(outcome, resetMs) ==
    /\ req.pc = "upstream"
    /\ outcome # "RateLimited" => resetMs = 0
    /\ LET a == req.account
       IN IF outcome = "ok"
          THEN /\ accounts' = [accounts EXCEPT ![a].lastUsed = now]
               /\ req' = IF req.stream
                         THEN [req EXCEPT !.pc = "streaming", !.upstreamOpen = TRUE]
                         ELSE Finish("ok", "none")
          ELSE IF outcome = "RateLimited"
          THEN /\ accounts' = markLimited(accounts, a, resetMs, req.model, now)
               /\ req' = [req EXCEPT !.pc = "select", !.lastError = outcome,
                                     !.lastReset = resetMs]
          ELSE IF outcome = "AuthInvalid"
          THEN /\ accounts' = markAccountInvalid(accounts, a, "upstream rejected")
               /\ req' = [req EXCEPT !.pc = "select", !.lastError = outcome]
          ELSE /\ req' = [Finish("error", outcome) EXCEPT !.lastError = outcome]
               /\ UNCHANGED accounts
    /\ UNCHANGED <<currentIndex, tokenCache, now, served, streamVars, convVars, sideVars, tokenVars>>

\* ------------------------------------------------------------------------
\* Streamed responses: the ReadableStream of handleMessages and
\* handleChatCompletions pulling from sendMessageStream
\* ------------------------------------------------------------------------
\* failures of the upstream while its events are flowing
StreamErrors == {"RateLimited", "UpstreamUnavailable"}

\* the loop left by an exception of enqueue or close on a cancelled stream:
\* the catch block throws again, start rejects, the generator is returned
Rejected == [req EXCEPT !.pc = "done", !.result = "aborted", !.upstreamOpen = FALSE]

\* sendMessageStream yields one more event and the loop enqueues it
StreamEvent ==
    /\ req.pc = "streaming"
    /\ req.pulled < MaxStreamEvents
    /\ req' = IF req.cancelled
              THEN [Rejected EXCEPT !.pulled = @ + 1]
              ELSE [req EXCEPT !.pulled = @ + 1,
                               !.body = Append(@, EventItem(req.pulled + 1))]
    /\ UNCHANGED <<accounts, currentIndex, tokenCache, now, served, streamVars, convVars, sideVars, tokenVars>>

\* sendMessageStream is done and the loop closes the body
StreamEnd ==
    /\ req.pc = "streaming"
    /\ req' = IF req.cancelled
              THEN Rejected
              ELSE [req EXCEPT !.pc = "done", !.result = "ok", !.closed = TRUE,
                               !.upstreamOpen = FALSE]
    /\ UNCHANGED <<accounts, currentIndex, tokenCache, now, served, streamVars, convVars, sideVars, tokenVars>>

StreamFail_Restarts(err) ==
    /\ req.pc = "streaming"
    /\ req' = [req EXCEPT !.pc = "select", !.lastError = err, !.pulled = 0,
                          !.tried = <<>>, !.upstreamOpen = FALSE]
    /\ UNCHANGED <<accounts, currentIndex, tokenCache, now, served, streamVars, convVars, sideVars, tokenVars>>

\* the upstream fails while its events are flowing: sendMessageStream
\* neither retries nor marks the account, the failure ends the sequence
StreamFail(err) ==
    /\ req.pc = "streaming"
    /\ req' = [Finish("error", err) EXCEPT !.lastError = err]
    /\ UNCHANGED <<accounts, currentIndex, tokenCache, now, served, streamVars, convVars, sideVars, tokenVars>>

\* the client closes the connection.  The stream body has no cancel hook
\* and sendMessageStream is given no abort signal: either the runtime tears
\* the whole request down (teardown), or only the stream is cancelled and
\* the loop goes on waiting for the next event
ClientCancel(teardown) ==
    /\ req.pc = "streaming"
    /\ ~req.cancelled
    /\ req' = IF teardown
              THEN [Rejected EXCEPT !.cancelled = TRUE]
              ELSE [req EXCEPT !.cancelled = TRUE]
    /\ UNCHANGED <<accounts, currentIndex, tokenCache, now, served, streamVars, convVars, sideVars, tokenVars>>

\* time passes
Tick ==
    /\ now < MaxTime
    /\ now' = now + TickStep
    /\ UNCHANGED <<accounts, currentIndex, tokenCache, req, served, streamVars, convVars, sideVars, tokenVars>>

\* ------------------------------------------------------------------------
\* WorkerAccountManager: the public methods, called one at a time on an
\* idle gateway
\* ------------------------------------------------------------------------
\* reset delays handed to markRateLimited (0: none, the default cooldown)
LimitResets == {0, 90}

ClearExpiredLimits ==
    /\ accounts' = clearLimits(accounts, now)
    /\ UNCHANGED <<currentIndex, tokenCache, now, req, served, streamVars, convVars, sideVars, tokenVars>>

ResetAllRateLimits ==
    /\ accounts' = resetAllRateLimits
    /\ UNCHANGED <<currentIndex, tokenCache, now, req, served, streamVars, convVars, sideVars, tokenVars>>

MarkRateLimited(a, resetMs, m) ==
    /\ a \in Accounts
    /\ accounts' = markLimited(accounts, a, resetMs, m, now)
    /\ UNCHANGED <<currentIndex, tokenCache, now, req, served, streamVars, convVars, sideVars, tokenVars>>

MarkInvalid(a) ==
    /\ a \in Accounts
    /\ accounts' = markAccountInvalid(accounts, a, "refresh_failed")
    /\ UNCHANGED <<currentIndex, tokenCache, now, req, served, streamVars, convVars, sideVars, tokenVars>>

\* the store and the pointer a selecting method leaves behind
Selected(sel) ==
    /\ accounts' = sel.accounts
    /\ currentIndex' = sel.newIndex
    /\ UNCHANGED <<tokenCache, now, req, served, streamVars, convVars, sideVars, tokenVars>>

PickNext(m) == Selected(pickNext(accounts, currentIndex, m))

GetCurrentStickyAccount(m) == Selected(getSticky(accounts, currentIndex, m, now))

PickStickyAccount(m) == Selected(pickStickyAccount(accounts, currentIndex, m))

TickLimits ==
    /\ now < MaxLimitTime
    /\ now' = now + LimitStep
    /\ UNCHANGED <<accounts, currentIndex, tokenCache, req, served, streamVars, convVars, sideVars, tokenVars>>

\* ------------------------------------------------------------------------
\* Project Resolver (getProjectForAccount, project-discovery.js)
\* ------------------------------------------------------------------------
Project(k, e) == [kind |-> k, endpoint |-> e]
\* no projectId / no cache entry
NoProject == Project("none", 0)
\* the projectId of the account-pool descriptor
ConfiguredProject == Project("configured", 0)
DEFAULT_PROJECT_ID == Project("default", 0)
\* the project id endpoint e answers with
DiscoveredAt(e) == Project("discovered", e)

\* ANTIGRAVITY_ENDPOINT_FALLBACKS, in their listed order
ANTIGRAVITY_ENDPOINT_FALLBACKS == [e \in 1 .. NumEndpoints |-> e]

\* what a discovery request may come to: response not ok, fetch or json()
\* throws, ok without a project id, ok with cloudaicompanionProject a
\* string, ok with cloudaicompanionProject an object with an id
DiscoveryOutcomes == {"not_ok", "throws", "no_project", "string", "object"}
DiscoveryFailures == {"not_ok", "throws", "no_project"}

IdleLookup ==
    [pc |-> "idle", account |-> NoAccount, endpoint |-> 0, contacted |-> <<>>,
     answers |-> <<>>, result |-> NoProject]

NoLookup ==
    /\ projectCache = <<>>
    /\ lookup = IdleLookup

\* getProjectForAccount returns projectId
Resolved(a, projectId, l) ==
    /\ projectCache' = [projectCache EXCEPT ![accounts[a].email] = projectId]
    /\ lookup' = [l EXCEPT !.pc = "returned", !.account = a, !.result = projectId]

\* getProjectForAccount up to the call of discoverProject
GetProjectForAccount(a) ==
    /\ a \in Accounts
    /\ lookup.pc = "idle"
    /\ IF projectCache[accounts[a].email] # NoProject
       THEN /\ lookup' = [IdleLookup EXCEPT !.pc = "returned", !.account = a,
                                            !.result = projectCache[accounts[a].email]]
            /\ UNCHANGED projectCache
       ELSE IF accounts[a].projectId # NoProject
       THEN Resolved(a, accounts[a].projectId, IdleLookup)
       ELSE /\ lookup' = [IdleLookup EXCEPT !.pc = "discovering", !.account = a,
                                            !.endpoint = 1]
            /\ UNCHANGED projectCache
    /\ UNCHANGED <<accounts, currentIndex, tokenCache, now, req, served, streamVars, tokenVars,
                   convVars, httpVars>>

\* the record of one more turn of the loop of discoverProject
Contacted(outcome) ==
    [lookup EXCEPT !.contacted = Append(@, ANTIGRAVITY_ENDPOINT_FALLBACKS[lookup.endpoint]),
                   !.answers = Append(@, outcome),
                   !.endpoint = @ + 1]

discoverProject_GivesUp(outcome) ==
    /\ lookup.pc = "discovering"
    /\ IF outcome \in DiscoveryFailures
       THEN Resolved(lookup.account, DEFAULT_PROJECT_ID, Contacted(outcome))
       ELSE Resolved(lookup.account, DiscoveredAt(lookup.endpoint), Contacted(outcome))
    /\ UNCHANGED <<accounts, currentIndex, tokenCache, now, req, served, streamVars, tokenVars,
                   convVars, httpVars>>

\* one turn of the loop of discoverProject, and the return after the loop
discoverProject(outcome) ==
    /\ lookup.pc = "discovering"
    /\ IF outcome \in DiscoveryFailures
       THEN IF lookup.endpoint < NumEndpoints
            THEN /\ lookup' = Contacted(outcome)
                 /\ UNCHANGED projectCache
            ELSE Resolved(lookup.account, DEFAULT_PROJECT_ID, Contacted(outcome))
       ELSE Resolved(lookup.account, DiscoveredAt(lookup.endpoint), Contacted(outcome))
    /\ UNCHANGED <<accounts, currentIndex, tokenCache, now, req, served, streamVars, tokenVars,
                   convVars, httpVars>>

\* the caller of getProjectForAccount goes on
LookupReturn ==
    /\ lookup.pc = "returned"
    /\ lookup' = IdleLookup
    /\ UNCHANGED projectCache
    /\ UNCHANGED <<accounts, currentIndex, tokenCache, now, req, served, streamVars, tokenVars,
                   convVars, httpVars>>

ClearProjectCache ==
    /\ lookup.pc = "idle"
    /\ projectCache' = [email \in DOMAIN projectCache |-> NoProject]
    /\ UNCHANGED lookup
    /\ UNCHANGED <<accounts, currentIndex, tokenCache, now, req, served, streamVars, tokenVars,
                   convVars, httpVars>>

\* ------------------------------------------------------------------------
\* Pool construction: parseAccountsFromEnv, normalizeAccounts, initialize
\* ------------------------------------------------------------------------
\* credentials an account of the descriptor may carry
AccountKinds ==
    { [source |-> "oauth", refreshToken |-> 1, apiKey |-> FALSE],
      [source |-> "manual", refreshToken |-> NoToken, apiKey |-> TRUE],
      [source |-> "oauth", refreshToken |-> NoToken, apiKey |-> FALSE] }

ConfiguredLimits == {NoLimit} \cup {Limit(t) : t \in ConfiguredResets}

OAuthKind == [source |-> "oauth", refreshToken |-> 1, apiKey |-> FALSE]

\* the descriptors explored: left-over limits for ConfiguredModel only, and
\* either any mix of credentials with no limit left over, or any left-over
\* limits on a pool of oauth accounts
Descriptor(kind, limits) ==
    /\ \A a \in DOMAIN kind : \A m \in Models \ {ConfiguredModel} : limits[a][m] = NoLimit
    /\ \/ \A a \in DOMAIN kind : limits[a][ConfiguredModel] = NoLimit
       \/ \A a \in DOMAIN kind : kind[a] = OAuthKind

\* an email is a number: account-<index>@unknown is the number index, and
\* an email the descriptor gives may be any of them
normalizeAccounts(kind, limits) ==
    [a \in DOMAIN kind |->
        [email |-> IF "email" \in DOMAIN kind[a] THEN kind[a].email ELSE a,
         source |-> kind[a].source, refreshToken |-> kind[a].refreshToken,
         apiKey |-> kind[a].apiKey,
         projectId |-> IF "projectId" \in DOMAIN kind[a] THEN kind[a].projectId
                       ELSE NoProject,
         lastUsed |-> NoTime,
         modelRateLimits |-> limits[a],
         isInvalid |-> FALSE, invalidReason |-> "null"]]

initialize(kind, limits, activeIndex) ==
    /\ accounts = clearLimits(normalizeAccounts(kind, limits), 0)
    /\ currentIndex = IF activeIndex >= Cardinality(DOMAIN kind) THEN 0 ELSE activeIndex
    /\ tokenCache = [a \in DOMAIN kind |-> NoTime]

\* ------------------------------------------------------------------------
\* Worker entry point (worker/src/index.js): parseError, ensureInitialized,
\* fetch.  An error text is a sequence of pieces; the pieces are the
\* substrings parseError looks for and the texts around them.
\* ------------------------------------------------------------------------
ResetMarker == "quota will reset after "
\* a duration as formatDuration writes it, and a text that is none
Duration == "1h30m0s"
Vague == "some time"
MessageField == "\"message\":\"bad tool schema\""

ErrorPieces ==
    {"401", "UNAUTHENTICATED", "429", "RESOURCE_EXHAUSTED", "QUOTA_EXHAUSTED",
     "invalid_request_error", "INVALID_ARGUMENT", "All endpoints failed",
     "PERMISSION_DENIED", ResetMarker, Duration, Vague, MessageField, "timeout"}

RECURSIVE TextsUpTo(_)
TextsUpTo(n) ==
    IF n = 0 THEN {<<>>}
    ELSE LET shorter == TextsUpTo(n - 1)
         IN shorter \cup {Append(t, p) : t \in shorter, p \in ErrorPieces}

\* the messages of the errors a handler may throw
ErrorTexts == TextsUpTo(MaxErrorPieces)

\* errorMessage.includes(needle), for a needle that is a piece
includes(errorMessage, needle) ==
    \E i \in 1 .. Len(errorMessage) : errorMessage[i] = needle

\* the longest prefix of a piece matched by [\\dh\\dm\\ds]+ : the class
\* of the pattern as written holds the backslash and the letters d, h, m
\* and s, and no digit
ClassRun(piece) ==
    CASE piece = Duration -> ""
      [] piece = Vague -> "s"
      [] piece = "timeout" -> ""
      [] OTHER -> ""

\* errorMessage.match(/quota will reset after ([...]+)/i): group 1 of the
\* first match, None without a match
resetMatch(errorMessage) ==
    LET at == {i \in 1 .. (Len(errorMessage) - 1) :
                  /\ errorMessage[i] = ResetMarker
                  /\ ClassRun(errorMessage[i + 1]) # ""}
    IN IF at = {} THEN None
       ELSE Some(ClassRun(errorMessage[(CHOOSE i \in at : \A j \in at : i <= j) + 1]))

\* errorMessage.match(/\"message\":\"([^\"]+)\"/)
msgMatch(errorMessage) ==
    IF includes(errorMessage, MessageField) THEN Some("bad tool schema") ELSE None

ErrorResult(ty, code, msg) == [errorType |-> ty, statusCode |-> code, errorMessage |-> msg]

\* parseError; error.message || String(error) for an empty message.  Both
\* patterns of modelMatch want a backslash in the text, which no piece
\* has, so model is 'the model'.
parseError(error) ==
    LET errorMessage == IF error = <<>> THEN <<"Error">> ELSE error
    IN IF includes(errorMessage, "401") \/ includes(errorMessage, "UNAUTHENTICATED")
       THEN ErrorResult("authentication_error", 401, <<"Authentication failed.">>)
       ELSE IF \/ includes(errorMessage, "429")
               \/ includes(errorMessage, "RESOURCE_EXHAUSTED")
               \/ includes(errorMessage, "QUOTA_EXHAUSTED")
       THEN IF resetMatch(errorMessage) # None
            THEN ErrorResult("invalid_request_error", 400,
                             <<"You have exhausted your capacity on ", "the model",
                               ". Quota will reset after ", resetMatch(errorMessage)[1], ".">>)
            ELSE ErrorResult("invalid_request_error", 400,
                             <<"You have exhausted your capacity on ", "the model",
                               ". Please wait for your quota to reset.">>)
       ELSE IF \/ includes(errorMessage, "invalid_request_error")
               \/ includes(errorMessage, "INVALID_ARGUMENT")
       THEN ErrorResult("invalid_request_error", 400,
                        IF msgMatch(errorMessage) # None THEN msgMatch(errorMessage)
                        ELSE errorMessage)
       ELSE IF includes(errorMessage, "All endpoints failed")
       THEN ErrorResult("api_error", 503, <<"Unable to connect to Cloud Code API.">>)
       ELSE IF includes(errorMessage, "PERMISSION_DENIED")
       THEN ErrorResult("permission_error", 403, <<"Permission denied.">>)
       ELSE ErrorResult("api_error", 500, errorMessage)

\* the environments a worker is deployed with: an account list, no
\* account at all, an ACCOUNTS_JSON that does not parse
Environments == {"accounts", "empty", "invalid"}

\* what WorkerAccountManager.initialize throws for an environment
InitializeError(env) ==
    CASE env = "empty" -> Some(<<"No accounts configured.">>)
      [] env = "invalid" -> Some(<<"Invalid ACCOUNTS_JSON: ", "Unexpected token">>)
      [] OTHER -> None

\* the error ensureInitialized throws, None when it returns
ensureInitialized ==
    IF worker.accountManager THEN None
    ELSE IF worker.initError # None THEN worker.initError
    ELSE InitializeError(worker.env)

Methods == {"OPTIONS", "GET", "POST"}
Paths == {"/health", "/account-limits", "/refresh-token", "/v1/models",
          "/v1/messages/count_tokens", "/v1/messages", "/v1/chat/completions",
          "/other"}

Request(method, path) == [method |-> method, path |-> path]

\* the routes of fetch that call a handler
Handled ==
    {Request("GET", "/health"), Request("GET", "/account-limits"),
     Request("POST", "/refresh-token"), Request("GET", "/v1/models"),
     Request("POST", "/v1/messages"), Request("POST", "/v1/chat/completions")}

CountTokens == Request("POST", "/v1/messages/count_tokens")

\* new Response / jsonResponse; handler TRUE when the body is a handler's
Response(status, ty, msg, handler) ==
    [status |-> status, type |-> ty, message |-> msg, handler |-> handler]

\* the response of the catch of fetch
ErrorResponse(error) ==
    Response(parseError(error).statusCode, parseError(error).errorType,
             parseError(error).errorMessage, FALSE)

\* the account manager ensureInitialized builds
Initialized ==
    /\ accounts' = clearLimits(normalizeAccounts([a \in 0 .. (NumAccounts - 1) |-> OAuthKind],
                                                 [a \in 0 .. (NumAccounts - 1) |->
                                                    [m \in Models |-> NoLimit]]), 0)
    /\ currentIndex' = 0
    /\ tokenCache' = [a \in 0 .. (NumAccounts - 1) |-> NoTime]

\* fetch up to the call of a handler, or to its response when no handler
\* is called
Fetch(method, path) ==
    /\ httpRequest = None
    /\ httpRequest' = Some(Request(method, path))
    /\ IF method = "OPTIONS"
       THEN /\ httpResponse' = Some(Response(204, "none", <<>>, FALSE))
            /\ UNCHANGED <<worker, thrown, accounts, currentIndex, tokenCache>>
       ELSE IF ensureInitialized # None
       THEN /\ worker' = [worker EXCEPT !.initError = ensureInitialized]
            /\ thrown' = ensureInitialized
            /\ httpResponse' = Some(ErrorResponse(ensureInitialized[1]))
            /\ UNCHANGED <<accounts, currentIndex, tokenCache>>
       ELSE /\ worker' = [worker EXCEPT !.accountManager = TRUE]
            /\ IF worker.accountManager
               THEN UNCHANGED <<accounts, currentIndex, tokenCache>>
               ELSE Initialized
            /\ UNCHANGED thrown
            /\ httpResponse' =
                  IF Request(method, path) \in Handled THEN None
                  ELSE IF Request(method, path) = CountTokens
                  THEN Some(Response(501, "not_implemented", <<"Token counting is not implemented.">>, FALSE))
                  ELSE Some(Response(404, "not_found_error", <<"Endpoint not found">>, FALSE))
    /\ UNCHANGED <<now, req, served, streamVars, tokenVars, convVars, projectVars, isolate>>

\* the handler returns a response
HandlerReturns ==
    /\ httpRequest # None
    /\ httpResponse = None
    /\ httpResponse' = Some(Response(200, "none", <<>>, TRUE))
    /\ UNCHANGED <<worker, httpRequest, thrown, isolate>>
    /\ UNCHANGED <<accounts, currentIndex, tokenCache, now, req, served, streamVars, tokenVars,
                   convVars, projectVars>>

\* the handler throws and the catch of fetch answers
HandlerThrows(error) ==
    /\ httpRequest # None
    /\ httpResponse = None
    /\ thrown' = Some(error)
    /\ httpResponse' = Some(ErrorResponse(error))
    /\ UNCHANGED <<worker, httpRequest, isolate>>
    /\ UNCHANGED <<accounts, currentIndex, tokenCache, now, req, served, streamVars, tokenVars,
                   convVars, projectVars>>

\* the response is sent; the worker waits for the next request
Responded ==
    /\ httpResponse # None
    /\ httpRequest' = None
    /\ thrown' = None
    /\ httpResponse' = None
    /\ UNCHANGED <<worker, isolate>>
    /\ UNCHANGED <<accounts, currentIndex, tokenCache, now, req, served, streamVars, tokenVars,
                   convVars, projectVars>>

\* ------------------------------------------------------------------------
\* fetch calls running side by side: each suspends at await
\* ensureInitialized(env) and, inside it, at await mgr.initialize(env)
\* ------------------------------------------------------------------------
Fetches == 1 .. MaxFetches

\* a fetch call: where it stands and the initialization it awaits
FetchCall(pc, awaiting) == [pc |-> pc, awaiting |-> awaiting]

\* initPromise (0: null, k: the promise of the k-th initialization), the
\* initializations running, started and assigned so far, the fetch calls
IdleIsolate ==
    [initPromise |-> 0, running |-> 0, started |-> 0, assigned |-> 0,
     fetches |-> [r \in Fetches |-> FetchCall("idle", 0)]]

ensureInitializedPath_NoSharedPromise ==
    IF worker.accountManager THEN "ready"
    ELSE IF worker.initError # None THEN "throws"
    ELSE "starts"

\* ensureInitialized up to its return: the branch it takes
ensureInitializedPath ==
    IF worker.accountManager THEN "ready"
    ELSE IF worker.initError # None THEN "throws"
    ELSE IF isolate.initPromise # 0 THEN "joins"
    ELSE "starts"

\* fetch call r receives a request and runs up to its first suspension
FetchArrives(r, method) ==
    /\ isolate.fetches[r].pc = "idle"
    /\ isolate' =
          IF method = "OPTIONS"
          THEN [isolate EXCEPT !.fetches[r] = FetchCall("answered", 0)]
          ELSE CASE ensureInitializedPath = "ready" ->
                      [isolate EXCEPT !.fetches[r] = FetchCall("routing", 0)]
                 [] ensureInitializedPath = "throws" ->
                      [isolate EXCEPT !.fetches[r] = FetchCall("caught", 0)]
                 [] ensureInitializedPath = "joins" ->
                      [isolate EXCEPT !.fetches[r] = FetchCall("waiting", isolate.initPromise)]
                 [] ensureInitializedPath = "starts" ->
                      [isolate EXCEPT !.initPromise = isolate.started + 1,
                                      !.started = @ + 1,
                                      !.running = @ + 1,
                                      !.fetches[r] = FetchCall("waiting", isolate.started + 1)]
    /\ UNCHANGED <<worker, httpRequest, thrown, httpResponse>>
    /\ UNCHANGED <<accounts, currentIndex, tokenCache, now, req, served, streamVars, tokenVars,
                   convVars, projectVars>>

\* a running mgr.initialize(env) settles: accountManager = mgr, or the
\* catch stores the error and clears initPromise
InitializeSettles ==
    /\ isolate.running > 0
    /\ IF InitializeError(worker.env) = None
       THEN /\ worker' = [worker EXCEPT !.accountManager = TRUE]
            /\ isolate' = [isolate EXCEPT !.running = @ - 1, !.assigned = @ + 1]
            /\ Initialized
       ELSE /\ worker' = [worker EXCEPT !.initError = InitializeError(worker.env)]
            /\ isolate' = [isolate EXCEPT !.running = @ - 1, !.initPromise = 0]
            /\ UNCHANGED <<accounts, currentIndex, tokenCache>>
    /\ UNCHANGED <<httpRequest, thrown, httpResponse>>
    /\ UNCHANGED <<now, req, served, streamVars, tokenVars, convVars, projectVars>>

\* the promise fetch call r awaits has settled: the call goes on to the
\* routing, or to the catch of fetch
FetchResumes(r) ==
    /\ isolate.fetches[r].pc = "waiting"
    /\ worker.accountManager \/ worker.initError # None
    /\ isolate' = [isolate EXCEPT !.fetches[r].pc =
                      IF worker.accountManager THEN "routing" ELSE "caught"]
    /\ UNCHANGED <<worker, httpRequest, thrown, httpResponse>>
    /\ UNCHANGED <<accounts, currentIndex, tokenCache, now, req, served, streamVars, tokenVars,
                   convVars, projectVars>>

\* the routing of fetch calls a handler, which reads accountManager
FetchRoutes(r) ==
    /\ isolate.fetches[r].pc = "routing"
    /\ isolate' = [isolate EXCEPT !.fetches[r].pc = "handler"]
    /\ UNCHANGED <<worker, httpRequest, thrown, httpResponse>>
    /\ UNCHANGED <<accounts, currentIndex, tokenCache, now, req, served, streamVars, tokenVars,
                   convVars, projectVars>>

\* fetch call r returns its response
FetchReturns(r) ==
    /\ isolate.fetches[r].pc \in {"answered", "caught", "handler"}
    /\ isolate' = [isolate EXCEPT !.fetches[r] = FetchCall("idle", 0)]
    /\ UNCHANGED <<worker, httpRequest, thrown, httpResponse>>
    /\ UNCHANGED <<accounts, currentIndex, tokenCache, now, req, served, streamVars, tokenVars,
                   convVars, projectVars>>

\* ========================================================================
\* Properties of the selector, the dispatcher and the HTTP boundary
\* ========================================================================
Threshold == MAX_WAIT_BEFORE_ERROR_MS

\* the pointer account as the selector sees it (expired limits cleared)
Current == clearLimits(accounts, now)[currentIndex]

\* remaining wait of the pointer account for model m
Remaining(m) == Current.modelRateLimits[m].resetTime - now

\* the available account that a circular scan from the pointer meets first
Distance(a) == (a - currentIndex + getAccountCount) % getAccountCount

NextAvailable(m) ==
    LET avail == getAvailable(accounts, m, now)
    IN IF avail = {} THEN NoAccount
       ELSE CHOOSE a \in avail : \A b \in avail : Distance(a) <= Distance(b)

\* C5: sticky invariant.  When the pointer account is neither invalid nor
\* rate-limited for m, two selections for m in a row both return the
\* pointer account and leave the pointer where it is.
C5_StickyInvariant ==
    \A m \in Models :
        isUsable(accounts[currentIndex], m, now) =>
            LET s1 == pickStickyAccount(accounts, currentIndex, m)
                s2 == pickStickyAccount(s1.accounts, s1.newIndex, m)
            IN /\ s1.account = currentIndex /\ s1.newIndex = currentIndex
               /\ s2.account = currentIndex /\ s2.newIndex = currentIndex
               /\ s1.waitMs = 0 /\ s2.waitMs = 0

\* C5 witness: the second request of a run has been given the pointer
\* account, the one that served the request before it.
C5_Witness ==
    /\ served = 2
    /\ req.pc = "token"
    /\ req.attempt = 1
    /\ req.account = currentIndex
    /\ accounts[currentIndex].lastUsed # NoTime

Scenario(m, rem) ==
    /\ getAccountCount = 2
    /\ currentIndex = 0
    /\ ~accounts[0].isInvalid
    /\ isActive(accounts[0].modelRateLimits[m], now)
    /\ accounts[0].modelRateLimits[m].resetTime - now = rem
    /\ isUsable(accounts[1], m, now)

\* a fresh dispatch makes its selection in this step
FirstSelection == req.pc = "select" /\ req.attempt = 0 /\ req' # req

C8_BoundedRetries ==
    /\ req.attempt <= getAccountCount
    /\ Len(req.tried) = req.attempt
    /\ \A i, j \in DOMAIN req.tried : i # j => req.tried[i] # req.tried[j]

\* C8 witness: a request failed after it tried every account of the pool.
C8_Witness ==
    /\ req.pc = "done"
    /\ req.result = "error"
    /\ req.attempt = NumAccounts
    /\ getAccountCount = NumAccounts
    /\ Range(req.tried) = Accounts

\* the dispatcher is between a selection and the outcome of its attempt
Attempting == req.pc \in {"token", "refreshing", "upstream"}

\* C9: the dispatcher goes back to selection only after RateLimited or
\* AuthInvalid; any other failure ends the request with that error in the
\* step it occurs, no further account is tried and no account is marked
\* rate-limited or invalid.
C9_OnlyRetryableRetried ==
    [][(Attempting /\ req' # req) =>
           /\ req'.pc = "select" => req'.lastError \in Retryable
           /\ req'.lastError \in NonRetryable =>
                 /\ req'.pc = "done"
                 /\ req'.result = "error"
                 /\ req'.error = req'.lastError
                 /\ req'.tried = req.tried
                 /\ \A a \in Accounts :
                       /\ accounts'[a].isInvalid = accounts[a].isInvalid
                       /\ accounts'[a].modelRateLimits = accounts[a].modelRateLimits]_vars

\* C9 witness: a request ended on a network failure of the credential
\* refresh at its first attempt, and the account it used is not invalid.
C9_Witness ==
    /\ req.pc = "done"
    /\ req.error = "AuthNetworkError"
    /\ req.attempt = 1
    /\ ~accounts[req.tried[1]].isInvalid

\* C10: optimistic reset.  A request that arrives while every account is
\* rate-limited for its model leaves no rate limit behind for any account
\* and any model, and a request with a valid body goes on to a selection
\* that returns an account whenever some account is not invalid.
C10_OptimisticReset ==
    [][(req.pc = "new" /\ req' # req /\ isAllRateLimited(req'.model)) =>
           /\ \A a \in Accounts, m \in Models :
                 ~accounts'[a].modelRateLimits[m].isRateLimited
           /\ req'.pc = "select" \/ req'.result = "bad_request"
           /\ (req'.pc = "select" /\ \E a \in Accounts : ~accounts[a].isInvalid) =>
                 pickStickyAccount(accounts', currentIndex', req'.model).account
                     # NoAccount]_vars

\* C10 witness: a request that arrived with every account rate-limited for
\* its model stands before its selection, and some account is not invalid.
C10_Witness ==
    /\ req.pc = "select"
    /\ req.attempt = 0
    /\ req.optimisticReset
    /\ \E a \in Accounts : ~accounts[a].isInvalid

\* the reset window of the scenario of C11 (seconds)
ThirtyMinutes == 30 * 60

\* the upstream answered the attempt of this step with RateLimited and a
\* 30-minute reset
LimitedFor30Min ==
    /\ req.pc = "upstream"
    /\ req'.pc = "select"
    /\ req'.lastError = "RateLimited"
    /\ req'.lastReset = ThirtyMinutes

\* a request with a valid body arrives in this step at a single-account
\* pool whose account carries, for the model of the request, a limit set by
\* a 30-minute reset
ArrivesAfter30MinLimit ==
    /\ getAccountCount = 1
    /\ req.pc = "new"
    /\ req'.pc = "select"
    /\ ~accounts[0].isInvalid
    /\ isActive(accounts[0].modelRateLimits[req'.model], now)
    /\ accounts[0].modelRateLimits[req'.model].resetTime >= ThirtyMinutes

\* C11 (as claimed): in a single-account pool a RateLimited error with a
\* 30-minute reset marks the account rate-limited until the time of the
\* error plus 30 minutes, and the next request for the model reports
\* exhaustion: its selection returns no account.
C11_NextRequestExhausted ==
    [][/\ (getAccountCount = 1 /\ LimitedFor30Min) =>
              accounts'[0].modelRateLimits[req.model] = Limit(now + ThirtyMinutes)
       /\ ArrivesAfter30MinLimit =>
              pickStickyAccount(accounts', currentIndex', req'.model).account
                  = NoAccount]_vars

\* C11 (amended): the error marks the account as claimed and a selection
\* made right then returns no account; the next request for the model finds
\* every account rate-limited, clears all rate limits before it is
\* dispatched, and its selection returns the account again.
C11_MarkedThenResetOnArrival ==
    [][/\ (getAccountCount = 1 /\ LimitedFor30Min) =>
              /\ accounts'[0].modelRateLimits[req.model] = Limit(now + ThirtyMinutes)
              /\ pickStickyAccount(accounts', currentIndex', req.model).account
                     = NoAccount
       /\ ArrivesAfter30MinLimit =>
              /\ req'.optimisticReset
              /\ \A m \in Models : accounts'[0].modelRateLimits[m] = NoLimit
              /\ pickStickyAccount(accounts', currentIndex', req'.model).account
                     = 0]_vars

\* C11 witness: the only account of the pool carries the limit of a
\* 30-minute reset reported at time 0, the request that met the error is
\* over, time has passed and the next request may arrive.
C11_Witness ==
    /\ getAccountCount = 1
    /\ served = 1
    /\ req.pc = "new"
    /\ now = TickStep
    /\ accounts[0].modelRateLimits[ConfiguredModel] = Limit(ThirtyMinutes)

AllInvalid == \A a \in Accounts : accounts[a].isInvalid

ItemPositions(b, k) == {p \in DOMAIN b : b[p].kind = k}

\* the upstream of a streamed response fails in this step after at least
\* one event was yielded, the client still connected
FailsMidStream ==
    /\ req.pc = "streaming"
    /\ req.pulled >= 1
    /\ ~req.cancelled
    /\ req'.pc = "done"
    /\ req'.result = "error"

\* C13: once events are flowing the request never goes back to selection
\* and makes no further attempt; a failure of the upstream ends the
\* sequence with one error item placed after every event delivered, and no
\* event is delivered twice.
C13_NoRestartMidStream ==
    [][/\ (req.pc = "streaming" /\ req' # req) =>
              /\ req'.pc \in {"streaming", "done"}
              /\ req'.attempt = req.attempt
              /\ req'.tried = req.tried
              /\ SubSeq(req'.body, 1, Len(req.body)) = req.body
       /\ FailsMidStream =>
              /\ Cardinality(ItemPositions(req'.body, "error")) = 1
              /\ \A p \in ItemPositions(req'.body, "event") :
                     \A q \in ItemPositions(req'.body, "error") : p < q
       /\ \A p, q \in ItemPositions(req'.body, "event") :
              p < q => req'.body[p].n < req'.body[q].n]_vars

\* C13 witness: in a two-account pool a streamed /v1/messages response
\* failed after its first event, at the first attempt of the request.
C13_Witness ==
    /\ getAccountCount = 2
    /\ req.pc = "done"
    /\ req.endpoint = "messages"
    /\ req.result = "error"
    /\ req.attempt = 1
    /\ req.body = <<EventItem(1), ErrorItem>>

\* the event source of a streamed response fails in this step, the client
\* still connected
FailsAfterBegun ==
    /\ req.stream
    /\ req.pc # "done"
    /\ ~req.cancelled
    /\ req'.pc = "done"
    /\ req'.result = "error"

\* C14 (as claimed): on both endpoints a failure of the event source of a
\* streamed response appends exactly one error chunk followed by a
\* termination marker, and the body is then closed.
C14_ErrorChunkThenMarker ==
    [][FailsAfterBegun =>
           /\ req'.body = req.body \o <<ErrorItem, DoneItem>>
           /\ req'.closed]_vars

\* C14 (amended): the failure appends exactly one error chunk followed by
\* the termination marker on /v1/chat/completions, exactly one error event
\* and no marker on /v1/messages; the body is then closed, never without
\* the error item.
C14_ErrorAppendedThenClosed ==
    [][FailsAfterBegun =>
           /\ req.endpoint = "chat" => req'.body = req.body \o <<ErrorItem, DoneItem>>
           /\ req.endpoint = "messages" => req'.body = req.body \o <<ErrorItem>>
           /\ req'.closed]_vars

\* C14 witness: a streamed /v1/chat/completions response failed after its
\* first event; the body holds the event, the error chunk and the marker.
C14_Witness ==
    /\ req.pc = "done"
    /\ req.endpoint = "chat"
    /\ req.result = "error"
    /\ req.closed
    /\ req.body = <<EventItem(1), ErrorItem, DoneItem>>

\* C15 (as claimed): after the client cancelled a streamed response no
\* further event is pulled from sendMessageStream.
C15_CancelStopsPulling ==
    [][(req.pc = "streaming" /\ req.cancelled) => req'.pulled = req.pulled]_vars

\* the accounts that are not invalid
NonInvalid == {a \in Accounts : ~accounts[a].isInvalid}

\* account a carries an unexpired rate limit for model m
LimitedNow(a, m) ==
    /\ accounts[a].modelRateLimits[m].isRateLimited
    /\ accounts[a].modelRateLimits[m].resetTime > now

C33_ChatWithoutMessagesRejected ==
    (req.endpoint = "chat" /\ req.messages \in {"missing", "string"}) =>
        /\ req.pc = "done"
        /\ req.result = "bad_request"
        /\ req.error = "InvalidArgument"
        /\ req.attempt = 0
        /\ req.account = NoAccount

\* C35: the step that rejects a request for its messages field leaves the
\* Account Store as it was: every account record and the rotation pointer.
C35_RejectionLeavesStore ==
    [][(req.pc = "new" /\ req'.result = "bad_request") =>
           /\ accounts' = accounts
           /\ currentIndex' = currentIndex]_vars

\* ========================================================================
\* Properties of the token provider (specification SpecToken)
\* ========================================================================
\* call c starts in this step / its refresh exchange settles in this step
Starts(c) == calls[c].pc = "idle" /\ calls'[c].pc # "idle"
Settles(c) == calls[c].pc = "refreshing" /\ calls'[c].pc # "refreshing"

\* C16: whenever getTokenForAccount returns a token (cache, refresh
\* exchange or manual key) the account is not invalid and has no invalid
\* reason afterwards; and an invalid flag is only ever cleared by a refresh
\* exchange that succeeded for that account.
C16_TokenImpliesValid ==
    [][/\ \A c \in Callers :
              (calls'[c].pc = "returned" /\ calls[c].pc # "returned") =>
                  /\ ~accounts'[calls'[c].account].isInvalid
                  /\ accounts'[calls'[c].account].invalidReason = "null"
       /\ \A a \in Accounts :
              (accounts[a].isInvalid /\ ~accounts'[a].isInvalid) =>
                  \E c \in Callers :
                      /\ Settles(c)
                      /\ calls'[c].account = a
                      /\ calls'[c].status = "refreshed"]_vars

\* C16 witness: a refresh exchange returned a token for an account that a
\* failed exchange of another call had marked invalid; the flag is clear.
C16_Witness ==
    /\ calls[1].pc = "returned"
    /\ calls[1].status = "refreshed"
    /\ calls[2].pc = "thrown"
    /\ calls[2].status = "AUTH_INVALID"
    /\ calls[2].account = calls[1].account
    /\ ~accounts[calls[1].account].isInvalid

\* C17: a failed refresh exchange that is a network failure surfaces as
\* AUTH_NETWORK_ERROR and leaves isInvalid and invalidReason as they were;
\* any other failure surfaces as AUTH_INVALID and marks the account invalid
\* with the message of the failure as reason.
C17_RefreshFailureClassified ==
    [][\A c \in Callers :
           (Settles(c) /\ calls'[c].failure # "none") =>
               LET a == calls[c].account
               IN /\ calls'[c].pc = "thrown"
                  /\ isNetworkError(calls'[c].failure) =>
                         /\ calls'[c].status = "AUTH_NETWORK_ERROR"
                         /\ accounts'[a].isInvalid = accounts[a].isInvalid
                         /\ accounts'[a].invalidReason = accounts[a].invalidReason
                  /\ ~isNetworkError(calls'[c].failure) =>
                         /\ calls'[c].status = "AUTH_INVALID"
                         /\ accounts'[a].isInvalid
                         /\ accounts'[a].invalidReason = calls'[c].failure]_vars

\* C17 witness: a refresh exchange failed on the network and the account
\* of the call is not invalid.
C17_Witness ==
    \E c \in Callers :
        /\ calls[c].pc = "thrown"
        /\ calls[c].status = "AUTH_NETWORK_ERROR"
        /\ ~accounts[calls[c].account].isInvalid

TokenTTL == TOKEN_REFRESH_INTERVAL_MS

\* the cache holds an entry for account a that is younger than the TTL
Fresh(a) == tokenCache[a] # NoTime /\ now - tokenCache[a] < TokenTTL

\* account a resolves its token by a refresh exchange
IsOAuth(a) == accounts[a].source = "oauth" /\ accounts[a].refreshToken # NoToken

\* C18 (as claimed): a call made less than the TTL after the last
\* successful resolution for its account returns the cached token without
\* an exchange; a call made with no entry or an entry at least TTL old
\* performs exactly one exchange (OAuth accounts) and replaces the entry.
C18_CachedWithinTTLOfResolution ==
    [][\A c \in Callers :
           /\ Starts(c) =>
                  LET a == calls'[c].account
                  IN /\ (resolvedAt[a] # NoTime /\ now - resolvedAt[a] < TokenTTL) =>
                            (calls'[c].pc = "returned" /\ calls'[c].exchanges = 0)
                     /\ (~Fresh(a) /\ IsOAuth(a)) =>
                            (calls'[c].pc = "refreshing" /\ calls'[c].exchanges = 1)
           /\ (Settles(c) /\ calls'[c].status = "refreshed") =>
                  /\ calls'[c].exchanges = 1
                  /\ tokenCache'[calls[c].account] = now]_vars

\* C18 (amended): a call made while the cache holds an entry younger than
\* the TTL returns the cached token without an exchange and leaves the
\* cache alone; a call made with no entry or an entry at least TTL old,
\* and the call handleRefreshToken makes after it cleared the cache however
\* recent the last resolution, performs exactly one exchange (OAuth
\* accounts), which replaces the entry when it succeeds and leaves the
\* cache alone when it fails.
C18_CachedWhileEntryFresh ==
    [][\A c \in Callers :
           /\ (Starts(c) /\ calls'[c].handler = "any") =>
                  LET a == calls'[c].account
                  IN /\ Fresh(a) =>
                            /\ calls'[c].pc = "returned"
                            /\ calls'[c].status = "cached"
                            /\ calls'[c].exchanges = 0
                            /\ tokenCache' = tokenCache
                     /\ (~Fresh(a) /\ IsOAuth(a)) =>
                            (calls'[c].pc = "refreshing" /\ calls'[c].exchanges = 1)
           /\ (Starts(c) /\ calls'[c].handler = "refresh-token") =>
                  LET a == calls'[c].account
                  IN /\ IsOAuth(a) =>
                            (calls'[c].pc = "refreshing" /\ calls'[c].exchanges = 1)
                     /\ \A b \in Accounts \ {a} : tokenCache'[b] = NoTime
           /\ Settles(c) =>
                  /\ calls'[c].exchanges = 1
                  /\ calls'[c].status = "refreshed" =>
                         tokenCache'[calls[c].account] = now
                  /\ calls'[c].status # "refreshed" => tokenCache' = tokenCache]_vars

\* C18 witness: a call for an oauth account returned the token cached 150 s
\* earlier, without an exchange.
C18_Witness ==
    \E c \in Callers :
        /\ calls[c].pc = "returned"
        /\ calls[c].status = "cached"
        /\ calls[c].exchanges = 0
        /\ IsOAuth(calls[c].account)
        /\ now = TickStep
        /\ tokenCache[calls[c].account] = 0

\* C19 (as claimed): when the response of the identity provider carries a
\* refresh token different from the stored one, the account record holds
\* the new token once getTokenForAccount has returned.
C19_RotatedTokenStored ==
    [][\A c \in Callers :
           (/\ Settles(c)
            /\ calls'[c].status = "refreshed"
            /\ calls'[c].got # NoToken
            /\ calls'[c].got # accounts[calls[c].account].refreshToken) =>
               accounts'[calls[c].account].refreshToken = calls'[c].got]_vars

\* another call for the account of call c has its exchange in flight
ExchangeInFlight(c, a) ==
    \E d \in Callers \ {c} : calls[d].pc = "refreshing" /\ calls[d].account = a

\* another call for the account of call c has cached its token
CompletedBefore(c, a) ==
    \E d \in Callers \ {c} :
        /\ calls[d].pc = "returned"
        /\ calls[d].status = "refreshed"
        /\ calls[d].account = a

\* C32: a getTokenForAccount call for an OAuth account that starts while
\* no unexpired token is cached performs its own refresh exchange although
\* another call for the same account has one in flight; and the entry a
\* successful exchange writes replaces the entry an earlier completion for
\* the same account wrote, so the cache holds the entry of the call that
\* completed last.
C32_RefreshNotDeduplicated ==
    [][\A c \in Callers :
           /\ (/\ Starts(c)
               /\ IsOAuth(calls'[c].account)
               /\ ~Fresh(calls'[c].account)
               /\ ExchangeInFlight(c, calls'[c].account)) =>
                  /\ calls'[c].pc = "refreshing"
                  /\ calls'[c].exchanges = 1
                  /\ calls'[c].sent = accounts[calls'[c].account].refreshToken
           /\ (/\ Settles(c)
               /\ calls'[c].status = "refreshed"
               /\ CompletedBefore(c, calls[c].account)) =>
                  /\ calls'[c].exchanges = 1
                  /\ tokenCache'[calls[c].account] = now]_vars

\* two calls for the same OAuth account each made one exchange; the first
\* completed at 0, the second one tick later, and the cache holds the
\* entry of the second
C32_Witness ==
    /\ calls[1].pc = "returned" /\ calls[2].pc = "returned"
    /\ calls[1].status = "refreshed" /\ calls[2].status = "refreshed"
    /\ calls[1].account = calls[2].account
    /\ calls[1].exchanges = 1 /\ calls[2].exchanges = 1
    /\ now = TickStep
    /\ tokenCache[calls[1].account] = TickStep

\* ========================================================================
\* Properties of GET /health (specification SpecHealth)
\* ========================================================================
\* a step of handleHealth: its calls start, or one of them settles
HealthStep ==
    \E c \in Callers :
        \/ Starts(c) /\ calls'[c].handler = "health"
        \/ Settles(c) /\ calls[c].handler = "health"

\* C31: a step of handleHealth leaves the rotation pointer and, in every
\* account, the modelRateLimits and lastUsed as they were; whatever it
\* changes in an account is isInvalid or invalidReason.
C31_HealthReadOnly ==
    [][HealthStep =>
          /\ currentIndex' = currentIndex
          /\ \A a \in Accounts :
                 /\ accounts'[a].modelRateLimits = accounts[a].modelRateLimits
                 /\ accounts'[a].lastUsed = accounts[a].lastUsed
                 /\ accounts'[a] = [accounts[a] EXCEPT
                                       !.isInvalid = accounts'[a].isInvalid,
                                       !.invalidReason = accounts'[a].invalidReason]]_vars

\* a call of handleHealth marked its account invalid and another cached a
\* token, beside an active rate limit and a pointer that has moved
C31_Witness ==
    /\ \E c \in Callers :
           /\ calls[c].handler = "health"
           /\ calls[c].status = "AUTH_INVALID"
           /\ accounts[calls[c].account].isInvalid
    /\ \E c \in Callers :
           /\ calls[c].handler = "health"
           /\ calls[c].status = "refreshed"
           /\ tokenCache[calls[c].account] # NoTime
    /\ \E a \in Accounts, m \in Models : isActive(accounts[a].modelRateLimits[m], now)
    /\ currentIndex = 1

\* ========================================================================
\* Properties of the account pool after initialize
\* ========================================================================
\* C27 (as claimed): after initialize every account has exactly one
\* credential: an oauth account a refreshToken and no apiKey, a manual
\* account an apiKey and no refreshToken.
C27_ExactlyOneCredential ==
    \A a \in Accounts :
        \/ /\ accounts[a].source = "oauth"
           /\ accounts[a].refreshToken # NoToken
           /\ ~accounts[a].apiKey
        \/ /\ accounts[a].source = "manual"
           /\ accounts[a].apiKey
           /\ accounts[a].refreshToken = NoToken

\* ========================================================================
\* Properties of the format converters
\* ========================================================================
IsToolUse(block) == block.type = "tool_use"
IsProse(block) == block.type \in {"text", "thinking"}
NotNewline(piece) == piece # "\n"

\* a string without its line breaks
Visible(str) == SelectSeq(str, NotNewline)

\* the text and thinking blocks one after the other, each thinking block's
\* content between an opening and a closing delimiter
RECURSIVE Prose(_)
Prose(blocks) ==
    IF blocks = <<>> THEN <<>>
    ELSE (IF blocks[1].type = "thinking"
          THEN <<"<thinking>">> \o blocks[1].text \o <<"</thinking>">>
          ELSE blocks[1].text) \o Prose(Tail(blocks))

\* C23: convertAnthropicToOpenAI puts the text and thinking blocks into one
\* message body in their order, thinking content between <thinking> and
\* </thinking>, and turns the tool_use blocks into tool-call entries in
\* their order with id, name and the JSON-stringified input; nothing is
\* dropped.
C23_BlocksKeptInOrder ==
    openaiResponse # None =>
        LET content == anthropicResponse[1].content
            message == openaiResponse[1].message
            body == IF message.content = None THEN <<>> ELSE message.content[1]
            tools == SelectSeq(content, IsToolUse)
        IN /\ Visible(body) = Prose(SelectSeq(content, IsProse))
           /\ Len(message.tool_calls) = Len(tools)
           /\ \A k \in DOMAIN tools :
                 /\ message.tool_calls[k].id = tools[k].id
                 /\ message.tool_calls[k].name = tools[k].name
                 /\ tools[k].input # Absent =>
                        message.tool_calls[k].arguments = JSONstringify(tools[k].input)

\* C23 witness: a response of a text block between two tool_use blocks, and
\* one of a thinking block followed by two text blocks, has been converted.
C23_Witness ==
    /\ openaiResponse # None
    /\ anthropicResponse[1].content \in
           { <<ToolUseBlock("call_2", "g", Absent), TextBlock(<<"a">>),
               ToolUseBlock("call_1", "f", "args_1")>>,
             <<ThinkingBlock(<<"t">>), TextBlock(<<"b">>), TextBlock(<<"a">>)>> }

\* all text of a message content, in order
RECURSIVE PartsText(_)
PartsText(parts) ==
    IF parts = <<>> THEN <<>>
    ELSE (IF parts[1].type = "text" THEN parts[1].text ELSE <<>>) \o PartsText(Tail(parts))

ContentText(content) ==
    IF content.kind = "string" THEN content.text
    ELSE IF content.kind = "array" THEN PartsText(content.parts)
    ELSE <<>>

\* all text of a list of messages, in order
RECURSIVE MessagesText(_)
MessagesText(messages) ==
    IF messages = <<>> THEN <<>>
    ELSE ContentText(messages[1].content) \o MessagesText(Tail(messages))

\* C24: convertOpenAIToAnthropic takes every system-role message out of the
\* message list and puts their text, in order, into the one system field;
\* the neutral list holds one message per non-system message, in the same
\* order, each with role user or assistant.
C24_SystemExtracted ==
    anthropicRequest # None =>
        LET messages == openaiRequest[1].messages
            request == anthropicRequest[1]
            system == IF request.system = None THEN <<>> ELSE request.system[1]
            others == SelectSeq(messages, NotSystem)
        IN /\ Visible(system) = MessagesText(SelectSeq(messages, IsSystem))
           /\ Len(request.messages) = Len(others)
           /\ \A k \in DOMAIN others :
                 /\ request.messages[k].role \in {"user", "assistant"}
                 /\ request.messages[k].role = "assistant" <=> others[k].role = "assistant"
                 /\ others[k].role # "tool" /\ others[k].content.kind = "string" =>
                        \/ request.messages[k].content = StringBody(others[k].content.text)
                        \/ /\ request.messages[k].content.kind = "blocks"
                           /\ request.messages[k].content.blocks[1] =
                                  TextBlock(others[k].content.text)
                 /\ others[k].role = "tool" =>
                        request.messages[k].content.blocks[1].id = others[k].tool_call_id

\* C24 witness: a request with a user message between two system messages,
\* the second one with a content array, has been converted.
C24_Witness ==
    /\ anthropicRequest # None
    /\ Len(openaiRequest[1].messages) = 3
    /\ openaiRequest[1].messages[1] = Message("system", StringContent(<<"s1">>), <<>>, Absent)
    /\ openaiRequest[1].messages[2].role = "user"
    /\ openaiRequest[1].messages[3].role = "system"
    /\ openaiRequest[1].messages[3].content.kind = "array"
    /\ anthropicRequest[1].system # None

IsFunction(toolCall) == toolCall.type = "function"

\* the tool_use blocks of the neutral message made from msg answer the
\* invocations one by one: same id and name, parsed arguments as
\* input, or the arguments text under `raw` when it is not valid JSON
ToolUsesAnswer(converted, invocations) ==
    LET toolUses == SelectSeq(converted.content.blocks, IsToolUse)
    IN /\ converted.content.kind = "blocks"
       /\ Len(toolUses) = Len(invocations)
       /\ \A j \in DOMAIN invocations :
             /\ toolUses[j].id = invocations[j].id
             /\ toolUses[j].name = invocations[j].name
             /\ toolUses[j].input =
                    IF invocations[j].arguments.valid
                    THEN ParsedInput(invocations[j].arguments.text)
                    ELSE RawInput(invocations[j].arguments.text)

\* positions, among the non-system messages, of the assistant messages
\* that carry tool invocations
ToolCalling(others) ==
    {k \in DOMAIN others : others[k].role = "assistant" /\ Len(others[k].tool_calls) > 0}

\* C25 (as claimed): every assistant message carrying tool invocations
\* yields one tool_use block per invocation, in order, with its id and
\* name, the parsed arguments as input, or the original arguments string
\* under `raw` when it is malformed; no invocation is dropped.
C25_OneToolUsePerInvocation ==
    anthropicRequest # None =>
        LET others == SelectSeq(openaiRequest[1].messages, NotSystem)
        IN \A k \in ToolCalling(others) :
               ToolUsesAnswer(anthropicRequest[1].messages[k], others[k].tool_calls)

\* C25 (amended): as claimed, for the tool invocations of type "function";
\* an invocation of any other type yields no block.
C25_OneToolUsePerFunctionInvocation ==
    anthropicRequest # None =>
        LET others == SelectSeq(openaiRequest[1].messages, NotSystem)
        IN \A k \in ToolCalling(others) :
               ToolUsesAnswer(anthropicRequest[1].messages[k],
                              SelectSeq(others[k].tool_calls, IsFunction))

\* C25 witness: an assistant message with a well-formed and a malformed
\* function invocation has been converted.
C25_Witness ==
    /\ anthropicRequest # None
    /\ \E k \in DOMAIN openaiRequest[1].messages :
           /\ openaiRequest[1].messages[k].role = "assistant"
           /\ Len(openaiRequest[1].messages[k].tool_calls) = 2
           /\ openaiRequest[1].messages[k].tool_calls[1].arguments.valid
           /\ ~openaiRequest[1].messages[k].tool_calls[2].arguments.valid

\* ========================================================================
\* Properties of the Rate-Limit Tracker
\* ========================================================================
\* a rate-limit entry that is still flagged although its window is over
Stale(limit, t) == limit.isRateLimited /\ limit.resetTime <= t

\* what the methods that make a selection decision return for model m
Selections(m) ==
    { pickNext(accounts, currentIndex, m),
      getSticky(accounts, currentIndex, m, now),
      pickStickyAccount(accounts, currentIndex, m) }

\* C21: right after clearExpired no entry is flagged with resetTime <= now,
\* entries whose resetTime is in the future are left as they were, and
\* every selection decision (pickNext, getCurrentStickyAccount,
\* pickStickyAccount) leaves the store as clearExpired leaves it.
C21_ClearExpired ==
    LET cleared == clearLimits(accounts, now)
    IN /\ \A a \in Accounts, m \in Models :
              /\ ~Stale(cleared[a].modelRateLimits[m], now)
              /\ accounts[a].modelRateLimits[m].resetTime > now =>
                     cleared[a].modelRateLimits[m] = accounts[a].modelRateLimits[m]
       /\ \A m \in Models : \A sel \in Selections(m) : sel.accounts = cleared

\* C21 witness: the store holds a flagged entry whose resetTime is exactly
\* now beside a flagged entry whose resetTime is in the future, so the next
\* clearExpired has one entry to clear and one to keep.
C21_Witness ==
    \E a, b \in Accounts, m, k \in Models :
        /\ accounts[a].modelRateLimits[m].isRateLimited
        /\ accounts[a].modelRateLimits[m].resetTime = now
        /\ accounts[b].modelRateLimits[k].isRateLimited
        /\ accounts[b].modelRateLimits[k].resetTime > now
        /\ \E c \in Accounts, j \in Models :
               /\ ~accounts[c].modelRateLimits[j].isRateLimited
               /\ accounts[c].modelRateLimits[j].resetTime # NoTime

\* C34: after initialize, and after every selection since, the rotation
\* pointer is an index of the account list, whatever initial rotation index
\* the descriptor gave.
C34_PointerInRange == currentIndex \in 0 .. (getAccountCount - 1)

\* ========================================================================
\* Properties of the Project Resolver (specification SpecProject)
\* ========================================================================
\* the first k endpoint bases, in their listed order
FirstEndpoints(k) == SubSeq(ANTIGRAVITY_ENDPOINT_FALLBACKS, 1, k)

\* C26: getProjectForAccount returns the configured projectId of an account
\* that has one, contacting no endpoint.  Otherwise the endpoints contacted
\* are the first k of the list in order, every one before the k-th failed
\* (HTTP error, exception, no project id), and the result is the project id
\* of the k-th if it answered with one, or the default project id if k is
\* the last endpoint and it failed too; or nothing is contacted and the
\* result is what an earlier discovery left in the cache.  The call always
\* returns a project id.
C26_ProjectResolved ==
    /\ lookup.pc = "discovering" =>
          /\ accounts[lookup.account].projectId = NoProject
          /\ lookup.contacted = FirstEndpoints(lookup.endpoint - 1)
          /\ \A i \in 1 .. Len(lookup.answers) : lookup.answers[i] \in DiscoveryFailures
    /\ lookup.pc = "returned" =>
          LET a == lookup.account
              k == Len(lookup.contacted)
          IN  /\ lookup.result # NoProject
              /\ Len(lookup.answers) = k
              /\ IF accounts[a].projectId # NoProject
                 THEN /\ lookup.result = accounts[a].projectId
                      /\ k = 0
                 ELSE \/ /\ k = 0
                         /\ lookup.result = projectCache[accounts[a].email]
                         /\ lookup.result.kind \in {"discovered", "default"}
                      \/ /\ k >= 1
                         /\ lookup.contacted = FirstEndpoints(k)
                         /\ \A i \in 1 .. (k - 1) : lookup.answers[i] \in DiscoveryFailures
                         /\ IF lookup.answers[k] \in DiscoveryFailures
                            THEN k = NumEndpoints /\ lookup.result = DEFAULT_PROJECT_ID
                            ELSE lookup.result = DiscoveredAt(ANTIGRAVITY_ENDPOINT_FALLBACKS[k])

\* a discovery whose first endpoint threw and whose second answered with a
\* project id, beside an account with a configured projectId
C26_Witness ==
    /\ lookup.pc = "returned"
    /\ Len(lookup.answers) = 2
    /\ lookup.answers[1] = "throws"
    /\ lookup.answers[2] \in {"string", "object"}
    /\ lookup.result = DiscoveredAt(ANTIGRAVITY_ENDPOINT_FALLBACKS[2])
    /\ \E b \in Accounts : accounts[b].projectId = ConfiguredProject

\* ========================================================================
\* Properties of the caches on any descriptor (specification SpecIdentity)
\* ========================================================================

\* C38: the project id getProjectForAccount returns for an account was
\* resolved from that account: its configured projectId when it has one,
\* and otherwise a discovered or default id, never the configured projectId
\* of another account that a cache entry carried over.
C38_OwnCredentials ==
    lookup.pc = "returned" =>
        IF accounts[lookup.account].projectId # NoProject
        THEN lookup.result = accounts[lookup.account].projectId
        ELSE lookup.result.kind # "configured"

\* ========================================================================
\* Properties of the worker entry point (specification SpecBoundary)
\* ========================================================================
\* fetch has answered a request with the error it caught
FetchCaught == httpRequest # None /\ thrown # None /\ httpResponse # None

\* the text is classified as a rate-limit condition
RateLimitText(text) ==
    \/ includes(text, "429")
    \/ includes(text, "RESOURCE_EXHAUSTED")
    \/ includes(text, "QUOTA_EXHAUSTED")

\* the text states a reset window: "quota will reset after <duration>"
StatesResetWindow(text) ==
    \E i \in 1 .. (Len(text) - 1) : text[i] = ResetMarker /\ text[i + 1] = Duration

\* C28: an error whose text contains 429, RESOURCE_EXHAUSTED or
\* QUOTA_EXHAUSTED is answered with status 400, and when the text states
\* a reset window the message of the response contains its duration.
C28_RateLimitSurfaced ==
    (FetchCaught /\ RateLimitText(thrown[1])) =>
        /\ httpResponse[1].status = 400
        /\ StatesResetWindow(thrown[1]) => includes(httpResponse[1].message, Duration)

\* C29: an error whose text carries "All endpoints failed" is answered
\* with status 503, whatever else the text holds.
C29_AllEndpointsFailedIs503 ==
    (FetchCaught /\ includes(thrown[1], "All endpoints failed")) =>
        httpResponse[1].status = 503

\* C30: POST /v1/messages/count_tokens is answered with status 501 and a
\* not_implemented error in every state of the worker, and no handler is
\* called for it.
C30_CountTokensIs501 ==
    (httpRequest = Some(CountTokens)) =>
        /\ httpResponse # None
        /\ httpResponse[1].status = 501
        /\ httpResponse[1].type = "not_implemented"
        /\ ~httpResponse[1].handler

\* C36: at most one WorkerAccountManager.initialize runs at a time; every
\* fetch call that waits for the initialization waits for the one
\* initPromise holds; accountManager is assigned at most once; and a fetch
\* call is in its routing or in a handler only while accountManager is set.
C36_InitializedOnce ==
    /\ isolate.running <= 1
    /\ isolate.assigned <= 1
    /\ \A r \in Fetches :
          /\ (isolate.fetches[r].pc = "waiting" /\ isolate.running > 0) =>
                 isolate.fetches[r].awaiting = isolate.initPromise
          /\ \A q \in Fetches :
                 (isolate.fetches[r].pc = "waiting" /\ isolate.fetches[q].pc = "waiting") =>
                     isolate.fetches[r].awaiting = isolate.fetches[q].awaiting
          /\ isolate.fetches[r].pc \in {"routing", "handler"} => worker.accountManager

\* two requests arrived before the initialization completed and waited for
\* the same promise; it has settled, one is in its handler, the other is
\* about to resume
C36_Witness ==
    /\ isolate.started = 1
    /\ isolate.assigned = 1
    /\ worker.accountManager
    /\ isolate.fetches[1].pc = "handler"
    /\ isolate.fetches[1].awaiting = 1
    /\ isolate.fetches[2].pc = "waiting"
    /\ isolate.fetches[2].awaiting = 1

\* ========================================================================
\* Specifications
\* ========================================================================
\* the worker module with its account manager ready and no request
NoFetch ==
    /\ worker = [env |-> "accounts", accountManager |-> TRUE, initError |-> None]
    /\ httpRequest = None
    /\ thrown = None
    /\ httpResponse = None
    /\ isolate = IdleIsolate

\* no conversion asked for
NoConversion ==
    /\ anthropicResponse = None
    /\ openaiResponse = None
    /\ openaiRequest = None
    /\ anthropicRequest = None
    /\ NoLookup
    /\ NoFetch

\* the pool every transcoder run starts beside: no limits, pointer at 0
IdlePool ==
    /\ initialize([a \in 0 .. (NumAccounts - 1) |-> OAuthKind],
                  [a \in 0 .. (NumAccounts - 1) |-> [m \in Models |-> NoLimit]], 0)
    /\ now = 0
    /\ req = NewRequest
    /\ served = 0
    /\ calls = <<>>
    /\ resolvedAt = <<>>
    /\ NoConversion

\* no caller of getTokenForAccount beside the dispatcher
NoCalls ==
    /\ calls = <<>>
    /\ resolvedAt = <<>>

\* the callers of getTokenForAccount, none of them in a call
IdleCallers ==
    /\ calls = [c \in Callers |-> IdleCall]
    /\ resolvedAt = [a \in 0 .. (NumAccounts - 1) |-> NoTime]

NoStream ==
    /\ inp = <<>>
    /\ out = <<>>
    /\ currentToolCallIndex = -1
    /\ emittedRole = FALSE
    /\ inThinking = FALSE

InitStream ==
    /\ IdlePool
    /\ inp = <<>>
    /\ out = <<>>
    /\ currentToolCallIndex = -1
    /\ emittedRole = FALSE
    /\ inThinking = FALSE

NextStream ==
    \/ OnMessageStart
    \/ \E i \in BlockIndices, bt \in BlockTypes : OnContentBlockStart(i, bt)
    \/ \E i \in BlockIndices, dt \in DeltaTypes : OnContentBlockDelta(i, dt)
    \/ \E i \in BlockIndices : OnContentBlockStop(i)
    \/ \E sr \in StopReasons : OnMessageDelta(sr)
    \/ OnMessageStop
    \/ OnError

SpecStream == InitStream /\ [][NextStream]_vars

Init ==
    /\ NoStream
    /\ NoConversion
    /\ \E n \in 1 .. NumAccounts :
          \E kind \in [0 .. (n - 1) -> AccountKinds],
             limits \in [0 .. (n - 1) -> [Models -> ConfiguredLimits]],
             activeIndex \in 0 .. NumAccounts :
               /\ Descriptor(kind, limits)
               /\ initialize(kind, limits, activeIndex)
    /\ now = 0
    /\ req = NewRequest
    /\ served = 0
    /\ NoCalls

Next ==
    \/ \E m \in Models, ms \in {"array", "missing"}, st \in BOOLEAN : HandleMessages(m, ms, st)
    \/ \E m \in Models, st \in BOOLEAN : HandleChatCompletions(m, "array", st)
    \/ Respond
    \/ SelectAccount
    \/ TokenStart
    \/ \E o \in RefreshOutcomes : TokenFinish(o)
    \/ \E o \in UpstreamOutcomes, d \in UpstreamResets : CallUpstream(o, d)
    \/ StreamEvent
    \/ StreamEnd
    \/ \E e \in StreamErrors : StreamFail(e)
    \/ \E td \in BOOLEAN : ClientCancel(td)
    \/ Tick

Spec == Init /\ [][Next]_vars

\* the two handlers on every kind of messages field, up to the selection
NextValidate ==
    \/ \E m \in Models, ms \in MessagesFields, st \in BOOLEAN : HandleMessages(m, ms, st)
    \/ \E m \in Models, ms \in MessagesFields, st \in BOOLEAN :
           HandleChatCompletions(m, ms, st)
    \/ Respond
    \/ SelectAccount

SpecValidate == Init /\ [][NextValidate]_vars

\* the token provider under concurrent callers: any pool without rate
\* limits, no request being dispatched
InitToken ==
    /\ NoStream
    /\ NoConversion
    /\ \E n \in 1 .. NumAccounts :
          \E kind \in [0 .. (n - 1) -> AccountKinds] :
              initialize(kind, [a \in 0 .. (n - 1) |-> [m \in Models |-> NoLimit]], 0)
    /\ now = 0
    /\ req = NewRequest
    /\ served = 0
    /\ IdleCallers

NextToken ==
    \/ \E c \in Callers, a \in 0 .. (NumAccounts - 1) : CallGetToken(c, a)
    \/ \E c \in Callers, o \in ExchangeOutcomes, r \in IssuedRefreshTokens :
           GetTokenFinish(c, o, r)
    \/ \E c \in Callers : CallReturn(c)
    \/ \E c \in Callers : HandleRefreshToken(c)
    \/ \E a \in 0 .. (NumAccounts - 1) : UpstreamRejects(a)
    \/ Tick
    \/ TickTTL

SpecToken == InitToken /\ [][NextToken]_vars

\* GET /health beside the selector and the rate-limit tracker
InitHealth ==
    /\ NoStream
    /\ NoConversion
    /\ \E n \in 1 .. NumAccounts :
          \E kind \in [0 .. (n - 1) -> AccountKinds] :
              initialize(kind, [a \in 0 .. (n - 1) |-> [m \in Models |-> NoLimit]], 0)
    /\ now = 0
    /\ req = NewRequest
    /\ served = 0
    /\ IdleCallers

NextHealth ==
    \/ HandleHealth
    \/ \E c \in Callers, o \in ExchangeOutcomes : GetTokenFinish(c, o, NoToken)
    \/ \E c \in Callers : CallReturn(c)
    \/ PickNext(ConfiguredModel)
    \/ \E a \in 0 .. (NumAccounts - 1) : MarkRateLimited(a, 90, ConfiguredModel)
    \/ Tick

SpecHealth == InitHealth /\ [][NextHealth]_vars

\* the account manager on an idle gateway: its methods in any order
InitLimits ==
    /\ NoStream
    /\ NoConversion
    /\ \E n \in 1 .. NumAccounts :
          initialize([a \in 0 .. (n - 1) |-> OAuthKind],
                     [a \in 0 .. (n - 1) |-> [m \in Models |-> NoLimit]], 0)
    /\ now = 0
    /\ req = NewRequest
    /\ served = 0
    /\ NoCalls

NextLimits ==
    \/ ClearExpiredLimits
    \/ ResetAllRateLimits
    \/ \E a \in 0 .. (NumAccounts - 1), d \in LimitResets, m \in Models :
           MarkRateLimited(a, d, m)
    \/ \E a \in 0 .. (NumAccounts - 1) : MarkInvalid(a)
    \/ \E m \in Models : PickNext(m)
    \/ \E m \in Models : GetCurrentStickyAccount(m)
    \/ \E m \in Models : PickStickyAccount(m)
    \/ TickLimits

SpecLimits == InitLimits /\ [][NextLimits]_vars

\* initial rotation indices a descriptor may give (activeIndex is any
\* JSON number)
ActiveIndices == -1 .. NumAccounts

\* the selector on pools initialized with any rotation index
InitPointer ==
    /\ NoStream
    /\ NoConversion
    /\ \E n \in 1 .. NumAccounts, activeIndex \in ActiveIndices :
          initialize([a \in 0 .. (n - 1) |-> OAuthKind],
                     [a \in 0 .. (n - 1) |-> [m \in Models |-> NoLimit]], activeIndex)
    /\ now = 0
    /\ req = NewRequest
    /\ served = 0
    /\ NoCalls

NextPointer ==
    \/ \E m \in Models : PickNext(m)
    \/ \E m \in Models : GetCurrentStickyAccount(m)
    \/ \E m \in Models : PickStickyAccount(m)
    \/ \E a \in 0 .. (NumAccounts - 1), m \in Models : MarkRateLimited(a, 0, m)
    \/ \E a \in 0 .. (NumAccounts - 1) : MarkInvalid(a)
    \/ TickLimits

SpecPointer == InitPointer /\ [][NextPointer]_vars

\* the format converters, each handed one argument
Contents == UNION { [1 .. n -> ContentBlocks] : n \in 0 .. MaxContentBlocks }
MessageLists == UNION { [1 .. n -> ChatMessages] : n \in 0 .. MaxMessages }

InitConvert ==
    /\ NoStream
    /\ initialize([a \in 0 .. (NumAccounts - 1) |-> OAuthKind],
                  [a \in 0 .. (NumAccounts - 1) |-> [m \in Models |-> NoLimit]], 0)
    /\ now = 0
    /\ req = NewRequest
    /\ served = 0
    /\ NoCalls
    /\ \/ /\ \E c \in Contents, sr \in StopReasons :
                 anthropicResponse = Some([content |-> c, stop_reason |-> sr])
          /\ openaiRequest = None
       \/ /\ \E ms \in MessageLists : openaiRequest = Some([messages |-> ms])
          /\ anthropicResponse = None
    /\ openaiResponse = None
    /\ anthropicRequest = None
    /\ NoLookup
    /\ NoFetch

NextConvert ==
    \/ ConvertAnthropicToOpenAI
    \/ ConvertOpenAIToAnthropic

SpecConvert == InitConvert /\ [][NextConvert]_vars

\* one neutral response converted whole and as a stream
InitAgree ==
    /\ InitConvert
    /\ anthropicResponse # None

NextAgree ==
    \/ ConvertAnthropicToOpenAI
    \/ ConvertStreamToOpenAI

SpecAgree == InitAgree /\ [][NextAgree]_vars

\* the Project Resolver: accounts with and without a configured projectId
InitProject ==
    /\ NoStream
    /\ \E n \in 1 .. NumAccounts :
          \E projects \in [0 .. (n - 1) -> {NoProject, ConfiguredProject}] :
             /\ initialize([a \in 0 .. (n - 1) |->
                               [source |-> "oauth", refreshToken |-> 1, apiKey |-> FALSE,
                                projectId |-> projects[a]]],
                           [a \in 0 .. (n - 1) |-> [m \in Models |-> NoLimit]], 0)
             /\ projectCache = [a \in 0 .. (n - 1) |-> NoProject]
    /\ now = 0
    /\ req = NewRequest
    /\ served = 0
    /\ NoCalls
    /\ anthropicResponse = None
    /\ openaiResponse = None
    /\ openaiRequest = None
    /\ anthropicRequest = None
    /\ lookup = IdleLookup
    /\ NoFetch

\* the Project Resolver on every descriptor normalizeAccounts takes: the
\* emails given may repeat
InitIdentity ==
    /\ NoStream
    /\ \E n \in 1 .. NumAccounts :
          \E projects \in [0 .. (n - 1) -> {NoProject, ConfiguredProject}],
             emails \in [0 .. (n - 1) -> 0 .. (n - 1)] :
             /\ initialize([a \in 0 .. (n - 1) |->
                               [email |-> emails[a],
                                source |-> "oauth", refreshToken |-> 1, apiKey |-> FALSE,
                                projectId |-> projects[a]]],
                           [a \in 0 .. (n - 1) |-> [m \in Models |-> NoLimit]], 0)
             /\ projectCache = [email \in 0 .. (n - 1) |-> NoProject]
    /\ now = 0
    /\ req = NewRequest
    /\ served = 0
    /\ NoCalls
    /\ anthropicResponse = None
    /\ openaiResponse = None
    /\ openaiRequest = None
    /\ anthropicRequest = None
    /\ lookup = IdleLookup
    /\ NoFetch

NextProject ==
    \/ \E a \in 0 .. (NumAccounts - 1) : GetProjectForAccount(a)
    \/ \E o \in DiscoveryOutcomes : discoverProject(o)
    \/ LookupReturn
    \/ ClearProjectCache

SpecProject == InitProject /\ [][NextProject]_vars
SpecIdentity == InitIdentity /\ [][NextProject]_vars

\* the worker entry point: a fresh module instance in each environment
InitBoundary ==
    /\ NoStream
    /\ accounts = <<>>
    /\ currentIndex = 0
    /\ tokenCache = <<>>
    /\ now = 0
    /\ req = NewRequest
    /\ served = 0
    /\ NoCalls
    /\ anthropicResponse = None
    /\ openaiResponse = None
    /\ openaiRequest = None
    /\ anthropicRequest = None
    /\ NoLookup
    /\ \E env \in Environments :
          worker = [env |-> env, accountManager |-> FALSE, initError |-> None]
    /\ httpRequest = None
    /\ thrown = None
    /\ httpResponse = None
    /\ isolate = IdleIsolate

NextBoundary ==
    \/ \E method \in Methods, path \in Paths : Fetch(method, path)
    \/ HandlerReturns
    \/ \E error \in ErrorTexts : HandlerThrows(error)
    \/ Responded

SpecBoundary == InitBoundary /\ [][NextBoundary]_vars

\* a fresh isolate answering requests side by side
NextIsolate ==
    \/ \E r \in Fetches, method \in Methods : FetchArrives(r, method)
    \/ InitializeSettles
    \/ \E r \in Fetches : FetchResumes(r)
    \/ \E r \in Fetches : FetchRoutes(r)
    \/ \E r \in Fetches : FetchReturns(r)

SpecIsolate == InitBoundary /\ [][NextIsolate]_vars

====
